---- MODULE Spec2Model ----
(***************************************************************************)
(* A model of the view resolution engine of @syster/diagram-core           *)
(* (view-resolver.ts and the filter/expose factories of sysml-views.ts)    *)
(* and of its workspace converter (converter.ts).                          *)
(*                                                                         *)
(* Strings are TLA+ strings; the JavaScript string methods the code uses   *)
(* (startsWith, includes, slice, replace with the namespace-marker regex)  *)
(* are modelled character by character on them.  An optional property of   *)
(* a TypeScript object is a record field that is present or absent.        *)
(* A Map is a sequence of [key, value] entries in insertion order.         *)
(***************************************************************************)
EXTENDS Integers, Sequences, FiniteSets, TLC

VARIABLES
    elements,       \* ModelContext.elements: Map<string, SysMLElement>
    relationships,  \* ModelContext.relationships: SysMLRelationship[]
    input,          \* the arguments a pure-function specification drew at Init
    last,           \* the last call made: its name, arguments and outcome
    edgeIdCounter   \* the converter's module variable: let edgeIdCounter = 0

vars == <<elements, relationships, input, last, edgeIdCounter>>

(***************************************************************************)
(* Bounds of the model.                                                    *)
(***************************************************************************)
MaxElements == 3        \* entries of the store in ExposeSpec
MaxViewElements == 2    \* entries of the store in Spec
MaxRelationships == 1   \* relationships of the store in Spec
MaxNodes == 3           \* nodes of a filter expression tree in EvalSpec
MaxLen == 2             \* elements of the list given to applyFilters in FilterSpec
MaxFilters == 2         \* filters of the list given to applyFilters in FilterSpec
MaxEdgeElements == 2    \* elements of the list given to findRelationshipEdges in EdgeSpec
MaxEdgeRelationships == 2   \* relationships given to findRelationshipEdges in EdgeSpec
MaxSymbols == 2         \* symbols of a workspace in ConverterSpec
MaxWorkspaceRelationships == 2  \* relationships of a workspace in ConverterSpec
MaxEdgeIds == 3         \* edge ids generated before a call in ConverterSpec
MaxAdds == 3            \* addElement calls in StoreSpec
MaxSuggested == 3       \* elements of the list given to suggestViewType in ViewTypeSpec
MaxCombined == 2        \* nodes of the first filter given to andFilter and orFilter
MaxSessionIds == 4      \* edge ids generated before the last calls of SessionSpec

\* The depth of nested exposeMembers calls at which the JavaScript engine
\* gives up (RangeError: Maximum call stack size exceeded).  Any acyclic walk
\* over a store of the model is shallower than this.
StackLimit == MaxElements + 2

(***************************************************************************)
(* JavaScript values and string methods.                                   *)
(***************************************************************************)
\* obj.field is present (not undefined)
Has(obj, field) == field \in DOMAIN obj

\* obj.field ?? dflt
OrElse(obj, field, dflt) == IF Has(obj, field) THEN obj[field] ELSE dflt

\* the truthiness of an optional string property: undefined and the empty
\* string are falsy
TruthyString(obj, field) == Has(obj, field) /\ obj[field] # ""

\* the truthiness of an optional boolean property: undefined and false are falsy
TruthyBoolean(obj, field) == Has(obj, field) /\ obj[field]

\* s.startsWith(p)
startsWith(s, p) == Len(p) <= Len(s) /\ SubSeq(s, 1, Len(p)) = p

\* s.endsWith(p)
endsWith(s, p) == Len(p) <= Len(s) /\ SubSeq(s, Len(s) - Len(p) + 1, Len(s)) = p

\* s.includes(sub)
includes(s, sub) ==
    \E i \in 0..(Len(s) - Len(sub)) : SubSeq(s, i + 1, i + Len(sub)) = sub

\* s.slice(n)
slice(s, n) == SubSeq(s, n + 1, Len(s))

\* pattern.replace(/::(\*{1,2})?$/, ''): the one match ends at the end of the
\* string and is "::", "::*" or "::**"
stripNamespaceMarker(pattern) ==
    IF endsWith(pattern, "::**") THEN SubSeq(pattern, 1, Len(pattern) - 4)
    ELSE IF endsWith(pattern, "::*") THEN SubSeq(pattern, 1, Len(pattern) - 3)
    ELSE IF endsWith(pattern, "::") THEN SubSeq(pattern, 1, Len(pattern) - 2)
    ELSE pattern

(***************************************************************************)
(* Map<string, V> in insertion order.                                      *)
(***************************************************************************)
mapKeys(m) == {m[i].key : i \in DOMAIN m}

mapHas(m, k) == k \in mapKeys(m)

\* m.get(k), for a key the map has
mapGet(m, k) == m[CHOOSE i \in DOMAIN m : m[i].key = k].value

\* m.set(k, v): a new key is appended, a present key keeps its position
mapSet(m, k, v) ==
    IF mapHas(m, k)
    THEN [i \in DOMAIN m |-> IF m[i].key = k THEN [key |-> k, value |-> v] ELSE m[i]]
    ELSE Append(m, [key |-> k, value |-> v])

\* Array.from(m.values())
mapValues(m) == [i \in DOMAIN m |-> m[i].value]

(***************************************************************************)
(* Outcomes of a call: a returned value, or a thrown error.                *)
(***************************************************************************)
Return(v) == [threw |-> FALSE, value |-> v]
Throw(e) == [threw |-> TRUE, error |-> e]

(***************************************************************************)
(* Model store.                                                            *)
(***************************************************************************)
\* createModelContext()
createModelContext == [elements |-> <<>>, relationships |-> <<>>]

\* the ModelContext object the state holds
context == [elements |-> elements, relationships |-> relationships]

\* mutant of addElement: an element whose qualified name is stored is ignored
addElement_FirstWins(ctx, element) ==
    IF mapHas(ctx.elements, element.qualifiedName) THEN ctx.elements
    ELSE mapSet(ctx.elements, element.qualifiedName, element)

\* addElement(context, element): the elements map after the call
addElement(ctx, element) == mapSet(ctx.elements, element.qualifiedName, element)

\* addRelationship(context, relationship): the relationship list after the call
addRelationship(ctx, relationship) == Append(ctx.relationships, relationship)

(***************************************************************************)
(* Expose resolution.                                                      *)
(***************************************************************************)
\* mutant of resolveNamespacePattern: every name under the prefix is matched,
\* direct child or not
resolveNamespacePattern_AllDepths(pattern, allMembers, recursive, ctx) ==
    LET prefix == stripNamespaceMarker(pattern)
        Matches(entry) == startsWith(entry.key, prefix \o "::")
    IN  mapValues(SelectSeq(ctx.elements, Matches))

\* mutant of resolveNamespacePattern: direct children only, whatever
\* recursive says
resolveNamespacePattern_DirectOnly(pattern, allMembers, recursive, ctx) ==
    LET prefix == stripNamespaceMarker(pattern)
        Matches(entry) ==
            /\ startsWith(entry.key, prefix \o "::")
            /\ ~includes(slice(entry.key, Len(prefix) + 2), "::")
    IN  mapValues(SelectSeq(ctx.elements, Matches))

\* resolveNamespacePattern(pattern, allMembers, recursive, context)
resolveNamespacePattern(pattern, allMembers, recursive, ctx) ==
    LET prefix == stripNamespaceMarker(pattern)
        Matches(entry) ==
            /\ startsWith(entry.key, prefix \o "::")
            /\ LET remainder == slice(entry.key, Len(prefix) + 2)
                   isDirectChild == ~includes(remainder, "::")
               IN  recursive \/ isDirectChild
    IN  mapValues(SelectSeq(ctx.elements, Matches))

RECURSIVE exposeMembers(_, _, _, _)
RECURSIVE exposeMembersLoop(_, _, _, _, _, _)

\* mutant of exposeMembersLoop: a child is expanded whatever recursive says
exposeMembersLoop_AlwaysDeep(element, recursive, ctx, depth, i, result) ==
    IF i > Len(element.children) THEN Return(result)
    ELSE LET childName == element.children[i] IN
         IF ~mapHas(ctx.elements, childName)
         THEN exposeMembersLoop(element, recursive, ctx, depth, i + 1, result)
         ELSE LET sub == exposeMembers(mapGet(ctx.elements, childName), TRUE, ctx,
                                       depth + 1)
              IN  IF sub.threw THEN sub
                  ELSE exposeMembersLoop(element, recursive, ctx, depth, i + 1,
                                         result \o sub.value)

\* mutant of exposeMembersLoop: a child is pushed but never expanded
exposeMembersLoop_NeverDeep(element, recursive, ctx, depth, i, result) ==
    IF i > Len(element.children) THEN Return(result)
    ELSE LET childName == element.children[i] IN
         IF ~mapHas(ctx.elements, childName)
         THEN exposeMembersLoop(element, recursive, ctx, depth, i + 1, result)
         ELSE exposeMembersLoop(element, recursive, ctx, depth, i + 1,
                                Append(result, mapGet(ctx.elements, childName)))

\* the for loop of exposeMembers from the i-th child on, result being the
\* list built so far
exposeMembersLoop(element, recursive, ctx, depth, i, result) ==
    IF i > Len(element.children) THEN Return(result)
    ELSE LET childName == element.children[i] IN
         IF ~mapHas(ctx.elements, childName)
         THEN exposeMembersLoop(element, recursive, ctx, depth, i + 1, result)
         ELSE LET child == mapGet(ctx.elements, childName) IN
              IF recursive
              THEN LET sub == exposeMembers(child, TRUE, ctx, depth + 1) IN
                   IF sub.threw THEN sub
                   ELSE exposeMembersLoop(element, recursive, ctx, depth, i + 1,
                                          result \o sub.value)
              ELSE exposeMembersLoop(element, recursive, ctx, depth, i + 1,
                                     Append(result, child))

\* mutant of exposeMembers: a depth guard ends the walk with what it has
exposeMembers_DepthGuard(element, recursive, ctx, depth) ==
    IF depth > StackLimit THEN Return(<<>>)
    ELSE exposeMembersLoop(element, recursive, ctx, depth, 1, <<element>>)

\* exposeMembers(element, recursive, context), called at the given depth of
\* nested exposeMembers calls
exposeMembers(element, recursive, ctx, depth) ==
    IF depth > StackLimit THEN Throw("RangeError")
    ELSE exposeMembersLoop(element, recursive, ctx, depth, 1, <<element>>)

\* mutant of resolveExposeClause: a recursive clause expands the members of
\* its target whatever allMembers says
resolveExposeClause_RecursiveExpands(expose, ctx) ==
    LET target == expose.target IN
    IF ~mapHas(ctx.elements, target)
    THEN Return(resolveNamespacePattern(target,
                                        OrElse(expose, "allMembers", FALSE),
                                        OrElse(expose, "recursive", FALSE), ctx))
    ELSE LET element == mapGet(ctx.elements, target) IN
         IF ~TruthyBoolean(expose, "allMembers") /\ ~TruthyBoolean(expose, "recursive")
         THEN Return(<<element>>)
         ELSE exposeMembers(element, OrElse(expose, "recursive", FALSE), ctx, 1)

\* mutant of resolveExposeClause: a target that is not a key of the store is
\* an error
resolveExposeClause_MissingThrows(expose, ctx) ==
    LET target == expose.target IN
    IF ~mapHas(ctx.elements, target) THEN Throw("Error")
    ELSE LET element == mapGet(ctx.elements, target) IN
         IF ~TruthyBoolean(expose, "allMembers") THEN Return(<<element>>)
         ELSE exposeMembers(element, OrElse(expose, "recursive", FALSE), ctx, 1)

\* resolveExposeClause(expose, context)
resolveExposeClause(expose, ctx) ==
    LET target == expose.target IN
    IF ~mapHas(ctx.elements, target)
    THEN Return(resolveNamespacePattern(target,
                                        OrElse(expose, "allMembers", FALSE),
                                        OrElse(expose, "recursive", FALSE), ctx))
    ELSE LET element == mapGet(ctx.elements, target) IN
         IF ~TruthyBoolean(expose, "allMembers") THEN Return(<<element>>)
         ELSE exposeMembers(element, OrElse(expose, "recursive", FALSE), ctx, 1)

\* mutant of setAll: the elements are pushed to a list, not set in a Map
setAll_Push(result, exposed) ==
    result \o [i \in DOMAIN exposed |->
                  [key |-> exposed[i].qualifiedName, value |-> exposed[i]]]

\* result.set(element.qualifiedName, element) for each element of exposed
RECURSIVE setAll(_, _)
setAll(result, exposed) ==
    IF exposed = <<>> THEN result
    ELSE setAll(mapSet(result, Head(exposed).qualifiedName, Head(exposed)),
                Tail(exposed))

\* the for loop of collectExposedElements over the remaining clauses
RECURSIVE collectLoop(_, _, _)
collectLoop(exposes, ctx, result) ==
    IF exposes = <<>> THEN Return(mapValues(result))
    ELSE LET exposed == resolveExposeClause(Head(exposes), ctx) IN
         IF exposed.threw THEN exposed
         ELSE collectLoop(Tail(exposes), ctx, setAll(result, exposed.value))

\* mutant of collectExposedElements: the clauses are processed last to first
collectExposedElements_Reversed(exposes, ctx) ==
    collectLoop([i \in DOMAIN exposes |-> exposes[Len(exposes) + 1 - i]], ctx, <<>>)

\* collectExposedElements(exposes, context)
collectExposedElements(exposes, ctx) == collectLoop(exposes, ctx, <<>>)

(***************************************************************************)
(* Filter application.                                                     *)
(***************************************************************************)
\* mutant of ownResult: the metaclass test narrows the expression test
ownResult_Narrowing(element, filter) ==
    LET afterMetaclass ==
            IF TruthyString(filter, "metaclass")
            THEN element.metaclass = filter.metaclass
            ELSE TRUE
        afterExpression ==
            IF TruthyString(filter, "expression")
            THEN afterMetaclass
                 /\ (includes(element.metaclass, filter.expression)
                     \/ includes(element.name, filter.expression))
            ELSE afterMetaclass
    IN  IF TruthyBoolean(filter, "not") THEN ~afterExpression ELSE afterExpression

\* evaluateFilter, its local result after the metaclass test, the expression
\* test and the negation, before the and and or combinations
ownResult(element, filter) ==
    LET afterMetaclass ==
            IF TruthyString(filter, "metaclass")
            THEN element.metaclass = filter.metaclass
            ELSE TRUE
        afterExpression ==
            IF TruthyString(filter, "expression")
            THEN includes(element.metaclass, filter.expression)
                 \/ includes(element.name, filter.expression)
            ELSE afterMetaclass
    IN  IF TruthyBoolean(filter, "not") THEN ~afterExpression ELSE afterExpression

RECURSIVE evaluateFilter(_, _)

\* mutant of evaluateFilter: the or combination is made before the and
evaluateFilter_OrFirst(element, filter) ==
    LET negated == ownResult(element, filter)
        afterOr ==
            IF Has(filter, "or") /\ ~negated
            THEN evaluateFilter(element, filter.or)
            ELSE negated
    IN  IF Has(filter, "and") /\ afterOr
        THEN afterOr /\ evaluateFilter(element, filter.and)
        ELSE afterOr

\* evaluateFilter(element, filter)
evaluateFilter(element, filter) ==
    LET negated == ownResult(element, filter)
        afterAnd ==
            IF Has(filter, "and") /\ negated
            THEN negated /\ evaluateFilter(element, filter.and)
            ELSE negated
    IN  IF Has(filter, "or") /\ ~afterAnd
        THEN evaluateFilter(element, filter.or)
        ELSE afterAnd

\* mutant of applyFilters: an element is kept when some filter passes
applyFilters_Some(els, filters) ==
    IF Len(filters) = 0 THEN els
    ELSE LET Some(element) ==
                 \E i \in DOMAIN filters : evaluateFilter(element, filters[i])
         IN  SelectSeq(els, Some)

\* mutant of applyFilters: the scan starts at the second element
applyFilters_SkipFirst(els, filters) ==
    IF Len(filters) = 0 \/ Len(els) = 0 THEN els
    ELSE LET Every(element) ==
                 \A i \in DOMAIN filters : evaluateFilter(element, filters[i])
         IN  SelectSeq(Tail(els), Every)

\* applyFilters(elements, filters)
applyFilters(els, filters) ==
    IF Len(filters) = 0 THEN els
    ELSE LET Every(element) ==
                 \A i \in DOMAIN filters : evaluateFilter(element, filters[i])
         IN  SelectSeq(els, Every)

(***************************************************************************)
(* Projection.                                                             *)
(***************************************************************************)
\* elementToNode(element): the spread of element.properties comes last in
\* data, so its keys win over name and qualifiedName
elementToNode(element) ==
    [id |-> element.id,
     type |-> element.metaclass,
     position |-> [x |-> 0, y |-> 0],
     data |-> element.properties
              @@ [name |-> element.name, qualifiedName |-> element.qualifiedName]]

\* mutant of findRelationshipEdges: the edge ids are generated from the
\* converter's counter
findRelationshipEdges_GeneratedIds(els, rels) ==
    LET elementNames == {els[i].qualifiedName : i \in DOMAIN els}
        Both(rel) == rel.source \in elementNames /\ rel.target \in elementNames
        kept == SelectSeq(rels, Both)
    IN  [i \in DOMAIN kept |->
            [id |-> "edge_" \o ToString(edgeIdCounter + i - 1),
             source |-> kept[i].source, target |-> kept[i].target,
             type |-> kept[i].type]]

\* mutant of findRelationshipEdges: one endpoint in the list is enough
findRelationshipEdges_EitherEndpoint(els, rels) ==
    LET elementNames == {els[i].qualifiedName : i \in DOMAIN els}
        Either(rel) == rel.source \in elementNames \/ rel.target \in elementNames
        kept == SelectSeq(rels, Either)
    IN  [i \in DOMAIN kept |->
            kept[i].properties
            @@ [id |-> kept[i].id, source |-> kept[i].source,
                target |-> kept[i].target, type |-> kept[i].type]]

\* findRelationshipEdges(elements, relationships): the spread of
\* rel.properties comes last in the edge, so its keys win
findRelationshipEdges(els, rels) ==
    LET elementNames == {els[i].qualifiedName : i \in DOMAIN els}
        Both(rel) == rel.source \in elementNames /\ rel.target \in elementNames
        kept == SelectSeq(rels, Both)
    IN  [i \in DOMAIN kept |->
            kept[i].properties
            @@ [id |-> kept[i].id, source |-> kept[i].source,
                target |-> kept[i].target, type |-> kept[i].type]]

(***************************************************************************)
(* View resolution.                                                        *)
(***************************************************************************)
\* mutant of effectiveExposes: an empty override falls back to the definition
effectiveExposes_EmptyFallsBack(view, viewDef) ==
    IF Has(view, "exposes") /\ Len(view.exposes) > 0 THEN view.exposes
    ELSE viewDef.exposes

\* view.exposes ?? viewDef.exposes
effectiveExposes(view, viewDef) == OrElse(view, "exposes", viewDef.exposes)

\* view.filters ?? viewDef.filters
effectiveFilters(view, viewDef) == OrElse(view, "filters", viewDef.filters)

\* resolveView(view, viewDef, context)
resolveView(view, viewDef, ctx) ==
    LET exposed == collectExposedElements(effectiveExposes(view, viewDef), ctx) IN
    IF exposed.threw THEN exposed
    ELSE LET exposedElements == exposed.value
             filteredElements ==
                 applyFilters(exposedElements, effectiveFilters(view, viewDef))
         IN  Return([view |-> view,
                     definition |-> viewDef,
                     nodes |-> [i \in DOMAIN filteredElements |->
                                   elementToNode(filteredElements[i])],
                     edges |-> findRelationshipEdges(filteredElements,
                                                     ctx.relationships),
                     exposedCount |-> Len(exposedElements),
                     filteredCount |-> Len(filteredElements)])

(***************************************************************************)
(* View type helpers.                                                      *)
(***************************************************************************)
VIEW_TYPES ==
    [GENERAL |-> "GeneralView", INTERCONNECTION |-> "InterconnectionView",
     ACTION_FLOW |-> "ActionFlowView", STATE_TRANSITION |-> "StateTransitionView",
     SEQUENCE |-> "SequenceView"]

\* getDefaultFiltersForViewType(viewType)
getDefaultFiltersForViewType(viewType) ==
    CASE viewType = VIEW_TYPES.INTERCONNECTION ->
            <<[id |-> "filter-parts", metaclass |-> "PartUsage"],
              [id |-> "filter-ports", metaclass |-> "PortUsage",
               or |-> [id |-> "filter-parts-2", metaclass |-> "PartUsage"]]>>
      [] viewType = VIEW_TYPES.ACTION_FLOW ->
            <<[id |-> "filter-actions", metaclass |-> "ActionUsage"]>>
      [] viewType = VIEW_TYPES.STATE_TRANSITION ->
            <<[id |-> "filter-states", metaclass |-> "StateUsage"]>>
      [] OTHER -> <<>>

\* mutant of suggestViewType: the action metaclasses are looked for first
suggestViewType_ActionFirst(els) ==
    LET metaclasses == {els[i].metaclass : i \in DOMAIN els}
    IN  IF "ActionUsage" \in metaclasses \/ "ActionDef" \in metaclasses
        THEN VIEW_TYPES.ACTION_FLOW
        ELSE IF "StateUsage" \in metaclasses \/ "StateDef" \in metaclasses
        THEN VIEW_TYPES.STATE_TRANSITION
        ELSE IF "PortUsage" \in metaclasses \/ "ConnectionUsage" \in metaclasses
        THEN VIEW_TYPES.INTERCONNECTION
        ELSE VIEW_TYPES.GENERAL

\* suggestViewType(elements)
suggestViewType(els) ==
    LET metaclasses == {els[i].metaclass : i \in DOMAIN els}
    IN  IF "StateUsage" \in metaclasses \/ "StateDef" \in metaclasses
        THEN VIEW_TYPES.STATE_TRANSITION
        ELSE IF "ActionUsage" \in metaclasses \/ "ActionDef" \in metaclasses
        THEN VIEW_TYPES.ACTION_FLOW
        ELSE IF "PortUsage" \in metaclasses \/ "ConnectionUsage" \in metaclasses
        THEN VIEW_TYPES.INTERCONNECTION
        ELSE VIEW_TYPES.GENERAL

(***************************************************************************)
(* The workspace converter.                                                *)
(***************************************************************************)
\* the value null
null == [null |-> TRUE]

\* s.replace(/::/g, "_")
RECURSIVE replaceSeparators(_)
replaceSeparators(s) ==
    IF Len(s) = 0 THEN s
    ELSE IF startsWith(s, "::") THEN "_" \o replaceSeparators(slice(s, 2))
    ELSE SubSeq(s, 1, 1) \o replaceSeparators(slice(s, 1))

\* mutant of generateEdgeId: the counter is read and not advanced
generateEdgeId_NoIncrement(counter) ==
    [id |-> "edge_" \o ToString(counter), counter |-> counter]

\* generateEdgeId(), the counter being counter: the id returned and the
\* counter after the call
generateEdgeId(counter) ==
    [id |-> "edge_" \o ToString(counter), counter |-> counter + 1]

\* the cases of the switch on symbol.definitionKind and the NODE_TYPES value
\* each returns
DefinitionCases ==
    [Part |-> "PartDef", Port |-> "PortDef", Action |-> "ActionDef",
     State |-> "StateDef", Item |-> "ItemDef", Attribute |-> "AttributeDef",
     Requirement |-> "RequirementDef", Concern |-> "ConcernDef",
     Case |-> "CaseDef", AnalysisCase |-> "AnalysisCaseDef",
     VerificationCase |-> "VerificationCaseDef", UseCase |-> "UseCaseDef",
     View |-> "ViewDef", Viewpoint |-> "ViewpointDef",
     Rendering |-> "RenderingDef", Allocation |-> "AllocationDef",
     Calculation |-> "CalculationDef", Connection |-> "ConnectionDef",
     Constraint |-> "ConstraintDef", Enumeration |-> "EnumerationDef",
     Flow |-> "FlowDef", Individual |-> "IndividualDef",
     Interface |-> "InterfaceDef", Occurrence |-> "OccurrenceDef",
     Metadata |-> "MetadataDef"]

\* the cases of the switch on symbol.usageKind and the NODE_TYPES value each
\* returns
UsageCases ==
    [Part |-> "PartUsage", Port |-> "PortUsage", Action |-> "ActionUsage",
     Item |-> "ItemUsage", Attribute |-> "AttributeUsage",
     Requirement |-> "RequirementUsage", Concern |-> "ConcernUsage",
     Case |-> "CaseUsage", View |-> "ViewUsage",
     Enumeration |-> "EnumerationUsage",
     SatisfyRequirement |-> "SatisfyRequirementUsage",
     PerformAction |-> "PerformActionUsage",
     ExhibitState |-> "ExhibitStateUsage",
     IncludeUseCase |-> "IncludeUseCaseUsage"]

\* { field: symbol.field }: a property that is undefined is left out
Copied(symbol, field) ==
    IF Has(symbol, field) THEN (field :> symbol[field]) ELSE <<>>

\* { field: symbol.field || dflt }, for a string property
CopiedOr(symbol, field, dflt) ==
    IF Has(symbol, field) /\ symbol[field] # "" THEN (field :> symbol[field])
    ELSE (field :> dflt)

\* the properties a definition node has beside the base and the type
definitionExtras(symbol) ==
    CASE symbol.definitionKind = "Part" ->
            [features |-> OrElse(symbol, "features", <<>>)]
      [] symbol.definitionKind = "Port" -> CopiedOr(symbol, "direction", "in")
      [] symbol.definitionKind = "Attribute" -> Copied(symbol, "dataType")
      [] symbol.definitionKind = "Requirement" -> Copied(symbol, "text")
      [] OTHER -> <<>>

\* the properties a usage node has beside the base and the type
usageExtras(symbol) ==
    CASE symbol.usageKind = "Port" ->
            CopiedOr(symbol, "direction", "in") @@ Copied(symbol, "typedBy")
      [] symbol.usageKind = "Attribute" ->
            Copied(symbol, "dataType") @@ Copied(symbol, "typedBy")
      [] symbol.usageKind = "Requirement" ->
            Copied(symbol, "text") @@ Copied(symbol, "typedBy")
      [] symbol.usageKind = "SatisfyRequirement" ->
            Copied(symbol, "satisfiedRequirement")
      [] symbol.usageKind = "PerformAction" -> Copied(symbol, "performedAction")
      [] symbol.usageKind = "ExhibitState" -> Copied(symbol, "exhibitedState")
      [] symbol.usageKind = "IncludeUseCase" -> Copied(symbol, "includedUseCase")
      [] OTHER -> Copied(symbol, "typedBy")

\* mutant of convertSymbolToNode: a Definition or Usage whose sub-kind is not
\* a case of the switch gets a node of its own sub-kind
convertSymbolToNode_AnyKind(symbol) ==
    LET base == [id |-> replaceSeparators(symbol.qualifiedName),
                 name |-> symbol.name, qualifiedName |-> symbol.qualifiedName]
    IN  IF symbol.kind = "Definition" /\ TruthyString(symbol, "definitionKind")
        THEN base @@ [type |-> symbol.definitionKind \o "Def"]
        ELSE IF symbol.kind = "Usage" /\ TruthyString(symbol, "usageKind")
        THEN base @@ [type |-> symbol.usageKind \o "Usage"]
        ELSE null

\* convertSymbolToNode(symbol)
convertSymbolToNode(symbol) ==
    LET base == [id |-> replaceSeparators(symbol.qualifiedName),
                 name |-> symbol.name, qualifiedName |-> symbol.qualifiedName]
    IN  IF symbol.kind = "Definition" /\ TruthyString(symbol, "definitionKind")
        THEN IF symbol.definitionKind \in DOMAIN DefinitionCases
             THEN base @@ [type |-> DefinitionCases[symbol.definitionKind]]
                       @@ definitionExtras(symbol)
             ELSE null
        ELSE IF symbol.kind = "Usage" /\ TruthyString(symbol, "usageKind")
        THEN IF symbol.usageKind \in DOMAIN UsageCases
             THEN base @@ [type |-> UsageCases[symbol.usageKind]]
                       @@ usageExtras(symbol)
             ELSE null
        ELSE null

\* the cases of the switch on relationship.type and the EDGE_TYPES value each
\* returns
RelationshipCases ==
    [specialization |-> "specialization", redefinition |-> "redefinition",
     subsetting |-> "subsetting", typing |-> "typing",
     reference_subsetting |-> "reference_subsetting",
     cross_subsetting |-> "cross_subsetting", satisfy |-> "satisfy",
     perform |-> "perform", exhibit |-> "exhibit", include |-> "include",
     assert |-> "assert", verify |-> "verify"]

\* mutant of convertRelationshipToEdge: the id is generated after the type
\* is checked
convertRelationshipToEdge_CheckFirst(relationship, counter) ==
    IF relationship.type \in DOMAIN RelationshipCases
    THEN LET generated == generateEdgeId(counter)
         IN  [outcome |-> Return([id |-> generated.id,
                                  source |-> relationship.source,
                                  target |-> relationship.target,
                                  type |-> RelationshipCases[relationship.type]]),
              counter |-> generated.counter]
    ELSE [outcome |-> Throw("Unknown relationship type: " \o relationship.type),
          counter |-> counter]

\* convertRelationshipToEdge(relationship), the counter being counter: the
\* outcome and the counter after the call (the id is generated before the
\* switch)
convertRelationshipToEdge(relationship, counter) ==
    LET generated == generateEdgeId(counter)
        base == [id |-> generated.id, source |-> relationship.source,
                 target |-> relationship.target]
    IN  [outcome |->
            IF relationship.type \in DOMAIN RelationshipCases
            THEN Return(base @@ [type |-> RelationshipCases[relationship.type]])
            ELSE Throw("Unknown relationship type: " \o relationship.type),
         counter |-> generated.counter]

\* the loop of createDiagramFromWorkspace over the remaining symbols
RECURSIVE convertSymbols(_, _)
convertSymbols(symbols, nodes) ==
    IF symbols = <<>> THEN nodes
    ELSE LET node == convertSymbolToNode(Head(symbols))
         IN  convertSymbols(Tail(symbols),
                            IF node # null THEN Append(nodes, node) ELSE nodes)

RECURSIVE convertRelationships(_, _, _)

\* mutant of convertRelationships: a relationship of an unknown type is
\* skipped
convertRelationships_SkipUnknown(rels, edges, counter) ==
    IF rels = <<>> THEN [outcome |-> Return(edges), counter |-> counter]
    ELSE LET edge == convertRelationshipToEdge(Head(rels), counter)
         IN  convertRelationships(Tail(rels),
                                  IF edge.outcome.threw THEN edges
                                  ELSE Append(edges, edge.outcome.value),
                                  edge.counter)

\* the loop of createDiagramFromWorkspace over the remaining relationships
convertRelationships(rels, edges, counter) ==
    IF rels = <<>> THEN [outcome |-> Return(edges), counter |-> counter]
    ELSE LET edge == convertRelationshipToEdge(Head(rels), counter)
         IN  IF edge.outcome.threw THEN edge
             ELSE convertRelationships(Tail(rels), Append(edges, edge.outcome.value),
                                       edge.counter)

\* the diagram nodes of the converted nodes
diagramNodes(nodes) ==
    [i \in DOMAIN nodes |->
        [id |-> nodes[i].id,
         type |-> nodes[i].type,
         position |-> [x |-> (i - 1) * 200, y |-> 0],
         data |-> nodes[i]]]

\* mutant of createDiagramFromWorkspace: an edge is kept when its source and
\* target are qualified names of nodes
createDiagramFromWorkspace_BetweenNodes(workspace, counter) ==
    LET nodes == convertSymbols(workspace.symbols, <<>>)
        edges == convertRelationships(workspace.relationships, <<>>, counter)
        names == {nodes[i].qualifiedName : i \in DOMAIN nodes}
        Between(edge) == edge.source \in names /\ edge.target \in names
    IN  IF edges.outcome.threw THEN edges
        ELSE [outcome |-> Return([nodes |-> diagramNodes(nodes),
                                  edges |-> SelectSeq(edges.outcome.value, Between)]),
              counter |-> edges.counter]

\* mutant of createDiagramFromWorkspace: the edge ids of a call start at 0
createDiagramFromWorkspace_RestartIds(workspace, counter) ==
    LET nodes == convertSymbols(workspace.symbols, <<>>)
        edges == convertRelationships(workspace.relationships, <<>>, 0)
    IN  IF edges.outcome.threw THEN [outcome |-> edges.outcome, counter |-> counter]
        ELSE [outcome |-> Return([nodes |-> diagramNodes(nodes),
                                  edges |-> edges.outcome.value]),
              counter |-> counter + Len(workspace.relationships)]

\* createDiagramFromWorkspace(workspace), the counter being counter: the
\* outcome and the counter after the call
createDiagramFromWorkspace(workspace, counter) ==
    LET nodes == convertSymbols(workspace.symbols, <<>>)
        edges == convertRelationships(workspace.relationships, <<>>, counter)
    IN  IF edges.outcome.threw THEN edges
        ELSE [outcome |-> Return([nodes |-> diagramNodes(nodes),
                                  edges |-> edges.outcome.value]),
              counter |-> edges.counter]

(***************************************************************************)
(* Factories of sysml-views.ts.                                            *)
(***************************************************************************)
\* exposeMember(target), without an alias
exposeMember(target) == [id |-> "expose-" \o target, target |-> target]

\* exposeAllMembers(namespace)
exposeAllMembers(namespace) ==
    [id |-> "expose-" \o namespace \o "::*", target |-> namespace,
     allMembers |-> TRUE]

\* exposeRecursive(namespace)
exposeRecursive(namespace) ==
    [id |-> "expose-" \o namespace \o "::**", target |-> namespace,
     allMembers |-> TRUE, recursive |-> TRUE]

\* filterByMetaclass(metaclass, negate)
filterByMetaclass(metaclass, negate) ==
    [id |-> "filter-" \o (IF negate THEN "not-" ELSE "") \o metaclass,
     metaclass |-> metaclass, not |-> negate]

\* andFilter(a, b): the spread of a comes first, so id and and replace a's
andFilter(a, b) == [id |-> a.id \o "-and-" \o b.id, and |-> b] @@ a

\* orFilter(a, b): the spread of a comes first, so id and or replace a's
orFilter(a, b) == [id |-> a.id \o "-or-" \o b.id, or |-> b] @@ a

\* createViewDefinition(name, GeneralView, {exposes, filters})
createViewDefinition(name, exposes, filters) ==
    [id |-> "view-def-" \o name, name |-> name, qualifiedName |-> name,
     viewType |-> "GeneralView", exposes |-> exposes, filters |-> filters]

\* createViewUsage(name, definition, options): options holds the overrides
createViewUsage(name, definition, options) ==
    options @@ [id |-> "view-" \o name, name |-> name, qualifiedName |-> name,
                definition |-> definition]

(***************************************************************************)
(* The values the calls are made with.                                     *)
(***************************************************************************)
\* S, and every record of S with the optional field set to a value of vals
Opt(S, field, vals) == S \cup {(field :> v) @@ r : r \in S, v \in vals}

\* a SysMLElement (the optional parent is absent: resolution never reads it)
Element(id, name, qualifiedName, metaclass, children, properties) ==
    [id |-> id, name |-> name, qualifiedName |-> qualifiedName,
     metaclass |-> metaclass, children |-> children, properties |-> properties]

NoProperties == <<>>

\* The elements added to a store.  Two candidates share each of the names P,
\* P::A and P::A::B (an overwrite changes the element).  Child lists name
\* stored and unstored elements, repeat a name, leave the namespace of their
\* parent, and close cycles (Q -> Q, and P -> P::A -> P::A::B -> P).
ElementP == Element("1", "P", "P", "Package", <<"P::A", "P::C">>, NoProperties)
ElementP2 ==
    Element("1b", "P", "P", "Package", <<"P::A", "P::X", "Q", "P::A">>,
            [name |-> "renamed"])
ElementP3 == Element("1c", "P", "P", "Package", <<"P::A">>, NoProperties)
ElementA == Element("2", "A", "P::A", "PartUsage", <<"P::A::B">>, NoProperties)
ElementA2 == Element("2b", "Port A", "P::A", "PartDef", <<>>, [mass |-> "1"])
ElementB == Element("3", "B", "P::A::B", "PortUsage", <<>>, NoProperties)
ElementB2 == Element("3b", "B", "P::A::B", "PortUsage", <<"P">>, NoProperties)
ElementC == Element("4", "C", "P::C", "PortUsage", <<>>, NoProperties)
ElementQ == Element("5", "Q", "Q", "ActionUsage", <<"Q">>, NoProperties)

ElementUniverse ==
    {ElementP, ElementP2, ElementP3, ElementA, ElementA2, ElementB, ElementB2,
     ElementC, ElementQ}

\* the elements added to a store in Spec
ViewElements == {ElementP, ElementP2, ElementA, ElementB, ElementQ}

\* a SysMLRelationship
Relationship(id, type, source, target, properties) ==
    [id |-> id, type |-> type, source |-> source, target |-> target,
     properties |-> properties]

RelationshipUniverse ==
    {Relationship("rel1", "specialization", "P::A", "P::A::B", NoProperties),
     Relationship("rel2", "dependency", "P::A", "Q", [label |-> "uses"])}

\* the targets of the expose clauses: stored names, namespace patterns with
\* each marker the regular expression strips, and a name nothing stores
Targets == {"P", "P::A", "P::A::B", "Q", "P::*", "P::**", "P::", "P::A::*", "X"}

\* every clause over Targets, allMembers and recursive each absent, true or false
ExposeClauses ==
    Opt(Opt({exposeMember(t) : t \in Targets}, "allMembers", BOOLEAN),
        "recursive", BOOLEAN)

\* the clauses the factories build for P and P::A
FactoryClauses ==
    UNION {{exposeMember(t), exposeAllMembers(t), exposeRecursive(t)} :
           t \in {"P", "P::A"}}

\* the clause lists given to collectExposedElements in ExposeSpec
ExposeLists ==
    {<<>>} \cup {<<c>> : c \in ExposeClauses}
           \cup {<<c, d>> : c \in FactoryClauses, d \in FactoryClauses}

\* the exposes lists of the view definitions and usages of Spec
ExposeOptions ==
    {<<>>,
     <<exposeMember("P::A")>>,
     <<exposeAllMembers("P"), exposeMember("P::A::B")>>,
     <<exposeRecursive("P")>>}

\* the filters lists of the view definitions and usages of Spec
FilterOptions ==
    {<<>>,
     <<filterByMetaclass("PartUsage", FALSE)>>,
     <<filterByMetaclass("Package", TRUE), [id |-> "f-expr", expression |-> "Port"]>>}

ViewDefinitions ==
    {createViewDefinition("Def", x, f) : x \in ExposeOptions, f \in FilterOptions}

ViewUsages ==
    {createViewUsage("use", "view-def-Def", o) :
        o \in Opt(Opt({<<>>}, "exposes", ExposeOptions), "filters", FilterOptions)}

\* the elements the filters are evaluated on
FilterElements ==
    {Element("1", "Engine", "Engine", "PartUsage", <<>>, NoProperties),
     Element("2", "FuelPort", "FuelPort", "PortUsage", <<>>, NoProperties),
     Element("3", "Drive", "Drive", "ActionUsage", <<>>, NoProperties),
     Element("4", "PortHole", "PortHole", "PartDef", <<>>, NoProperties)}

\* the tests of the root of a filter tree: metaclass and expression each
\* absent, empty or a name, not absent, true or false
RootTests ==
    Opt(Opt(Opt({[id |-> "f"]}, "metaclass", {"", "PartUsage", "PortUsage"}),
            "expression", {"", "Port"}),
        "not", BOOLEAN)

\* the tests of the nodes below the root
NodeTests ==
    {[id |-> "n1", metaclass |-> "PartUsage"],
     [id |-> "n2", metaclass |-> "PortUsage", not |-> TRUE],
     [id |-> "n3", expression |-> "Eng"],
     [id |-> "n4"]}

\* the filter trees of exactly n nodes, each node one of NodeTests
RECURSIVE Trees(_)
Trees(n) ==
    IF n < 1 THEN {}
    ELSE IF n = 1 THEN NodeTests
    ELSE {("and" :> a) @@ t : t \in NodeTests, a \in Trees(n - 1)}
         \cup {("or" :> o) @@ t : t \in NodeTests, o \in Trees(n - 1)}
         \cup UNION {{[and |-> a, or |-> o] @@ t :
                        t \in NodeTests, a \in Trees(k), o \in Trees(n - 1 - k)} :
                     k \in 1..(n - 2)}

\* the and and or properties a filter node may carry: neither, one or both,
\* each a tree, of at most n nodes together
Children(n) ==
    {<<>>}
    \cup UNION {{[and |-> a] : a \in Trees(k)} : k \in 1..n}
    \cup UNION {{[or |-> o] : o \in Trees(k)} : k \in 1..n}
    \cup UNION {{[and |-> a, or |-> o] : a \in Trees(k), o \in Trees(j)} :
                <<k, j>> \in {<<k, j>> \in (1..n) \X (1..n) : k + j <= n}}

\* the filters of the lists given to applyFilters in FilterSpec
ListFilters ==
    {filterByMetaclass("PartUsage", FALSE),
     filterByMetaclass("PortUsage", TRUE),
     [id |-> "f-expr", expression |-> "Port"],
     [id |-> "f-or", metaclass |-> "PortUsage",
      or |-> [id |-> "f-or-2", metaclass |-> "PartUsage"]],
     [id |-> "f-and", expression |-> "Port", not |-> TRUE,
      and |-> [id |-> "f-and-2", metaclass |-> "ActionUsage", not |-> TRUE]]}

\* the sequences over S of length at most n
RECURSIVE SeqsUpTo(_, _)
SeqsUpTo(S, n) ==
    IF n = 0 THEN {<<>>}
    ELSE LET shorter == SeqsUpTo(S, n - 1)
         IN  shorter \cup {Append(q, x) : q \in shorter, x \in S}

(***************************************************************************)
(* The store and view resolution: Spec.                                    *)
(***************************************************************************)
NoInput == [kind |-> "none"]

\* The operations that change the store.  A resolution call leaves the store
\* as it is, so a call made after another call reaches the very state it
\* reaches when made first: the calls are taken from the states a store
\* operation left, which loses no reachable state.
StoreOps == {"createModelContext", "addElement", "addRelationship"}

Init ==
    /\ elements = createModelContext.elements
    /\ relationships = createModelContext.relationships
    /\ input = NoInput
    /\ last = [op |-> "createModelContext"]
    /\ edgeIdCounter = 0

\* addElement(context, element), the store holding at most cap entries
AddElement(element, cap) ==
    /\ mapHas(elements, element.qualifiedName) \/ Len(elements) < cap
    /\ elements' = addElement(context, element)
    /\ last' = [op |-> "addElement"]
    /\ UNCHANGED <<relationships, input, edgeIdCounter>>

\* addRelationship(context, relationship)
AddRelationship(relationship) ==
    /\ Len(relationships) < MaxRelationships
    /\ relationships' = addRelationship(context, relationship)
    /\ last' = [op |-> "addRelationship"]
    /\ UNCHANGED <<elements, input, edgeIdCounter>>

\* mutant of ResolveView: the exposed elements are collected in the store's
\* own Map, which keeps them alone
ResolveView_InPlace(view, viewDef) ==
    /\ last.op \in StoreOps
    /\ last' = [op |-> "resolveView", view |-> view, viewDef |-> viewDef,
                outcome |-> resolveView(view, viewDef, context)]
    /\ elements' =
          LET exposed == collectExposedElements(effectiveExposes(view, viewDef), context)
          IN  IF exposed.threw THEN elements ELSE setAll(<<>>, exposed.value)
    /\ UNCHANGED <<relationships, input, edgeIdCounter>>

\* resolveView(view, viewDef, context)
ResolveView(view, viewDef) ==
    /\ last.op \in StoreOps
    /\ last' = [op |-> "resolveView", view |-> view, viewDef |-> viewDef,
                outcome |-> resolveView(view, viewDef, context)]
    /\ UNCHANGED <<elements, relationships, input, edgeIdCounter>>

Next ==
    \/ \E element \in ViewElements : AddElement(element, MaxViewElements)
    \/ \E relationship \in RelationshipUniverse : AddRelationship(relationship)
    \/ \E view \in ViewUsages, viewDef \in ViewDefinitions : ResolveView(view, viewDef)

Spec == Init /\ [][Next]_vars

(***************************************************************************)
(* Expose resolution over a store: ExposeSpec.                             *)
(***************************************************************************)
\* collectExposedElements(exposes, context)
CollectExposedElements(exposes) ==
    /\ last.op \in StoreOps
    /\ last' = [op |-> "collectExposedElements", exposes |-> exposes,
                outcome |-> collectExposedElements(exposes, context)]
    /\ UNCHANGED <<elements, relationships, input, edgeIdCounter>>

ExposeNext ==
    \/ \E element \in ElementUniverse : AddElement(element, MaxElements)
    \/ \E exposes \in ExposeLists : CollectExposedElements(exposes)

ExposeSpec == Init /\ [][ExposeNext]_vars

(***************************************************************************)
(* evaluateFilter on one element and one filter tree: EvalSpec.            *)
(***************************************************************************)
EvalInit ==
    /\ elements = <<>>
    /\ relationships = <<>>
    /\ \E element \in FilterElements, test \in RootTests,
          children \in Children(MaxNodes - 1) :
            input = [element |-> element, filter |-> children @@ test]
    /\ last = [op |-> "none"]
    /\ edgeIdCounter = 0

\* evaluateFilter(input.element, input.filter); own is the local result
\* before the and and or combinations
EvaluateFilter ==
    /\ last.op = "none"
    /\ last' = [op |-> "evaluateFilter",
                own |-> ownResult(input.element, input.filter),
                result |-> evaluateFilter(input.element, input.filter)]
    /\ UNCHANGED <<elements, relationships, input, edgeIdCounter>>

EvalNext == EvaluateFilter

EvalSpec == EvalInit /\ [][EvalNext]_vars

(***************************************************************************)
(* applyFilters on a list of elements and a list of filters: FilterSpec.   *)
(***************************************************************************)
FilterInit ==
    /\ elements = <<>>
    /\ relationships = <<>>
    /\ input \in [elements : SeqsUpTo(FilterElements, MaxLen),
                  filters : SeqsUpTo(ListFilters, MaxFilters)]
    /\ last = [op |-> "none"]
    /\ edgeIdCounter = 0

\* applyFilters(input.elements, input.filters)
ApplyFilters ==
    /\ last.op = "none"
    /\ last' = [op |-> "applyFilters", nth |-> 1, elements |-> input.elements,
                result |-> applyFilters(input.elements, input.filters)]
    /\ UNCHANGED <<elements, relationships, input, edgeIdCounter>>

\* applyFilters(r, input.filters), r being the result of the call before
ApplyFiltersAgain ==
    /\ last.op = "applyFilters"
    /\ last.nth = 1
    /\ last' = [op |-> "applyFilters", nth |-> 2, elements |-> last.result,
                result |-> applyFilters(last.result, input.filters)]
    /\ UNCHANGED <<elements, relationships, input, edgeIdCounter>>

FilterNext == ApplyFilters \/ ApplyFiltersAgain

FilterSpec == FilterInit /\ [][FilterNext]_vars

(***************************************************************************)
(* findRelationshipEdges on a list of elements and a list of               *)
(* relationships: EdgeSpec.                                                *)
(***************************************************************************)
\* the elements of the lists given to findRelationshipEdges
EdgeElements == {ElementA, ElementB, ElementQ}

\* the relationships given to findRelationshipEdges: between listed elements
\* and to an element no list holds, with property bags that are empty, that
\* add a key, and that hold the keys source, id and type
EdgeRelationships ==
    RelationshipUniverse
    \cup {Relationship("rel3", "dependency", "Q", "P::A", [source |-> "Z"]),
          Relationship("rel4", "typing", "P::A::B", "Q",
                       [id |-> "other", type |-> "custom"]),
          Relationship("rel5", "satisfy", "P::A", "X", NoProperties)}

EdgeInit ==
    /\ elements = <<>>
    /\ relationships = <<>>
    /\ input \in [elements : SeqsUpTo(EdgeElements, MaxEdgeElements),
                  relationships : SeqsUpTo(EdgeRelationships, MaxEdgeRelationships)]
    /\ last = [op |-> "none"]
    /\ edgeIdCounter = 0

\* findRelationshipEdges(input.elements, input.relationships)
FindRelationshipEdges ==
    /\ last.op = "none"
    /\ last' = [op |-> "findRelationshipEdges",
                result |-> findRelationshipEdges(input.elements, input.relationships)]
    /\ UNCHANGED <<elements, relationships, input, edgeIdCounter>>

EdgeNext == FindRelationshipEdges

EdgeSpec == EdgeInit /\ [][EdgeNext]_vars

(***************************************************************************)
(* The converter calls, one after the other: ConverterSpec.                *)
(***************************************************************************)
\* a SymbolData with no optional field
Symbol(name, qualifiedName, kind) ==
    [name |-> name, qualifiedName |-> qualifiedName, kind |-> kind]

SymbolKinds == {"Definition", "Usage", "Package", "Classifier", "Feature", "Alias"}

\* the symbols given to convertSymbolToNode: every kind, definitionKind and
\* usageKind each absent, empty, a case of its switch, a case of the other
\* switch only, or no case of either
SymbolUniverse ==
    Opt(Opt(Opt(Opt({Symbol("V", "Pkg::V", k) : k \in SymbolKinds},
                    "definitionKind",
                    {"", "Part", "Port", "State", "Metadata", "SatisfyRequirement",
                     "InvalidKind"}),
                "usageKind",
                {"", "Part", "Port", "IncludeUseCase", "State", "InvalidKind"}),
            "direction", {"out"}),
        "typedBy", {"T"})

\* the symbols of the workspaces
WorkspaceSymbols ==
    {[definitionKind |-> "Part"] @@ Symbol("V", "A::V", "Definition"),
     [usageKind |-> "Port", typedBy |-> "T"] @@ Symbol("p", "A::V::p", "Usage"),
     [usageKind |-> "Part"] @@ Symbol("A_V", "A_V", "Usage"),
     Symbol("A", "A", "Package"),
     Symbol("N", "N", "Definition"),
     [usageKind |-> "InvalidKind"] @@ Symbol("I", "I", "Usage")}

\* a RelationshipData
RelationshipData(type, source, target) ==
    [type |-> type, source |-> source, target |-> target]

\* the relationships of the workspaces: two types of the vocabulary, a value
\* of EDGE_TYPES outside it and a value of neither
WorkspaceRelationships ==
    {RelationshipData("specialization", "A::V", "A_V"),
     RelationshipData("typing", "A::V::p", "A::V"),
     RelationshipData("dependency", "A::V", "A_V"),
     RelationshipData("bogus", "A::V", "A::V::p")}

Workspaces ==
    [symbols : SeqsUpTo(WorkspaceSymbols, MaxSymbols),
     relationships : SeqsUpTo(WorkspaceRelationships, MaxWorkspaceRelationships)]

\* The calls that lead to a value of the counter.  A converter call depends
\* on the calls before it through edgeIdCounter alone, and every value the
\* counter takes is reached by single convertRelationshipToEdge calls: the
\* other calls are taken from the states these leave.
CounterOps == {"none", "convertRelationshipToEdge"}

ConverterInit ==
    /\ elements = <<>>
    /\ relationships = <<>>
    /\ input = NoInput
    /\ last = [op |-> "none"]
    /\ edgeIdCounter = 0

\* convertSymbolToNode(symbol)
ConvertSymbolToNode(symbol) ==
    /\ last' = [op |-> "convertSymbolToNode", symbol |-> symbol,
                outcome |-> Return(convertSymbolToNode(symbol))]
    /\ UNCHANGED <<elements, relationships, input, edgeIdCounter>>

\* convertRelationshipToEdge(relationship)
ConvertRelationshipToEdge(relationship) ==
    /\ edgeIdCounter < MaxEdgeIds
    /\ LET call == convertRelationshipToEdge(relationship, edgeIdCounter)
       IN  /\ last' = [op |-> "convertRelationshipToEdge",
                       relationship |-> relationship, outcome |-> call.outcome]
           /\ edgeIdCounter' = call.counter
    /\ UNCHANGED <<elements, relationships, input>>

\* createDiagramFromWorkspace(workspace)
CreateDiagramFromWorkspace(workspace) ==
    /\ LET call == createDiagramFromWorkspace(workspace, edgeIdCounter)
       IN  /\ last' = [op |-> "createDiagramFromWorkspace",
                       workspace |-> workspace, outcome |-> call.outcome]
           /\ edgeIdCounter' = call.counter
    /\ UNCHANGED <<elements, relationships, input>>

ConverterNext ==
    \/ /\ last.op \in CounterOps
       /\ \E symbol \in SymbolUniverse : ConvertSymbolToNode(symbol)
    \/ /\ last.op \in CounterOps
       /\ \E relationship \in WorkspaceRelationships :
             ConvertRelationshipToEdge(relationship)
    \/ /\ last.op \in CounterOps
       /\ \E workspace \in Workspaces : CreateDiagramFromWorkspace(workspace)

ConverterSpec == ConverterInit /\ [][ConverterNext]_vars

(***************************************************************************)
(* addElement calls and the elements they were given: StoreSpec.           *)
(***************************************************************************)
StoreInit ==
    /\ elements = createModelContext.elements
    /\ relationships = createModelContext.relationships
    /\ input = [added |-> <<>>]
    /\ last = [op |-> "createModelContext"]
    /\ edgeIdCounter = 0

\* addElement(context, element); input.added lists the elements the calls
\* made so far were given, size is the number of entries before the call
AddElementRecorded(element) ==
    /\ Len(input.added) < MaxAdds
    /\ elements' = addElement(context, element)
    /\ input' = [added |-> Append(input.added, element)]
    /\ last' = [op |-> "addElement", size |-> Len(elements)]
    /\ UNCHANGED <<relationships, edgeIdCounter>>

StoreNext == \E element \in ElementUniverse : AddElementRecorded(element)

StoreSpec == StoreInit /\ [][StoreNext]_vars

(***************************************************************************)
(* resolveView called twice on a store, converter calls in between:        *)
(* RepeatSpec.                                                             *)
(***************************************************************************)
\* the usages of RepeatSpec: no override, and both lists overridden
RepeatUsages ==
    {createViewUsage("use", "view-def-Def", <<>>),
     createViewUsage("use", "view-def-Def",
                     [exposes |-> <<exposeRecursive("P")>>, filters |-> <<>>])}

\* the first resolveView(view, viewDef, context); input keeps the call
ResolveViewFirst(view, viewDef) ==
    /\ input = NoInput
    /\ LET outcome == resolveView(view, viewDef, context)
       IN  /\ last' = [op |-> "resolveView", view |-> view, viewDef |-> viewDef,
                       outcome |-> outcome]
           /\ input' = [kind |-> "repeat", view |-> view, viewDef |-> viewDef,
                        outcome |-> outcome]
    /\ UNCHANGED <<elements, relationships, edgeIdCounter>>

\* resolveView(input.view, input.viewDef, context) again
ResolveViewAgain ==
    /\ input # NoInput
    /\ "nth" \notin DOMAIN last
    /\ last' = [op |-> "resolveView", nth |-> 2, view |-> input.view,
                viewDef |-> input.viewDef,
                outcome |-> resolveView(input.view, input.viewDef, context)]
    /\ UNCHANGED <<elements, relationships, input, edgeIdCounter>>

RepeatNext ==
    \/ \E element \in ViewElements :
          input = NoInput /\ AddElement(element, MaxViewElements)
    \/ \E relationship \in RelationshipUniverse :
          input = NoInput /\ AddRelationship(relationship)
    \/ \E view \in RepeatUsages, viewDef \in ViewDefinitions :
          ResolveViewFirst(view, viewDef)
    \/ \E relationship \in WorkspaceRelationships :
          /\ input # NoInput
          /\ "nth" \notin DOMAIN last
          /\ ConvertRelationshipToEdge(relationship)
    \/ ResolveViewAgain

RepeatSpec == Init /\ [][RepeatNext]_vars

(***************************************************************************)
(* A session of converter calls and the edges they returned: SessionSpec.  *)
(***************************************************************************)
\* the relationships of a session: one of the vocabulary, converted again
\* and again, and one outside it
SessionRelationships ==
    {RelationshipData("specialization", "A::V", "A_V"),
     RelationshipData("bogus", "A::V", "A::V::p")}

\* the workspaces of a session: no symbol, or two convertible symbols around
\* a Package
SessionWorkspaces ==
    [symbols : {<<>>,
                <<[definitionKind |-> "Part"] @@ Symbol("V", "A::V", "Definition"),
                  Symbol("A", "A", "Package"),
                  [usageKind |-> "Port"] @@ Symbol("p", "A::V::p", "Usage")>>},
     relationships : SeqsUpTo(SessionRelationships, MaxWorkspaceRelationships)]

SessionInit ==
    /\ elements = <<>>
    /\ relationships = <<>>
    /\ input = [produced |-> <<>>]
    /\ last = [op |-> "none"]
    /\ edgeIdCounter = 0

\* convertRelationshipToEdge(relationship); input.produced lists the edges
\* the calls made so far returned
ConvertRelationshipToEdgeRecorded(relationship) ==
    /\ edgeIdCounter < MaxSessionIds
    /\ LET call == convertRelationshipToEdge(relationship, edgeIdCounter)
       IN  /\ last' = [op |-> "convertRelationshipToEdge",
                       relationship |-> relationship, outcome |-> call.outcome]
           /\ edgeIdCounter' = call.counter
           /\ input' = [produced |->
                           IF call.outcome.threw THEN input.produced
                           ELSE Append(input.produced, call.outcome.value)]
    /\ UNCHANGED <<elements, relationships>>

\* createDiagramFromWorkspace(workspace)
CreateDiagramFromWorkspaceRecorded(workspace) ==
    /\ edgeIdCounter < MaxSessionIds
    /\ LET call == createDiagramFromWorkspace(workspace, edgeIdCounter)
       IN  /\ last' = [op |-> "createDiagramFromWorkspace",
                       workspace |-> workspace, outcome |-> call.outcome]
           /\ edgeIdCounter' = call.counter
           /\ input' = [produced |->
                           IF call.outcome.threw THEN input.produced
                           ELSE input.produced \o call.outcome.value.edges]
    /\ UNCHANGED <<elements, relationships>>

\* createDiagramFromWorkspace(last.workspace) again; previous is the outcome
\* of the call before
CreateDiagramFromWorkspaceAgain ==
    /\ last.op = "createDiagramFromWorkspace"
    /\ "previous" \notin DOMAIN last
    /\ LET call == createDiagramFromWorkspace(last.workspace, edgeIdCounter)
       IN  /\ last' = [op |-> "createDiagramFromWorkspace",
                       workspace |-> last.workspace, outcome |-> call.outcome,
                       previous |-> last.outcome]
           /\ edgeIdCounter' = call.counter
           /\ input' = [produced |->
                           IF call.outcome.threw THEN input.produced
                           ELSE input.produced \o call.outcome.value.edges]
    /\ UNCHANGED <<elements, relationships>>

SessionNext ==
    \/ \E relationship \in SessionRelationships :
          ConvertRelationshipToEdgeRecorded(relationship)
    \/ \E workspace \in SessionWorkspaces :
          CreateDiagramFromWorkspaceRecorded(workspace)
    \/ CreateDiagramFromWorkspaceAgain

SessionSpec == SessionInit /\ [][SessionNext]_vars

(***************************************************************************)
(* suggestViewType and the default filters on a list of elements:          *)
(* ViewTypeSpec.                                                           *)
(***************************************************************************)
\* the metaclasses suggestViewType looks for, and three it does not
SuggestedMetaclasses ==
    {"StateUsage", "StateDef", "ActionUsage", "ActionDef", "PortUsage",
     "ConnectionUsage", "PartUsage", "PartDef", "PortDef"}

\* one element of each metaclass
SuggestedElements ==
    {Element(m, m, m, m, <<>>, NoProperties) : m \in SuggestedMetaclasses}

ViewTypeInit ==
    /\ elements = <<>>
    /\ relationships = <<>>
    /\ input \in [elements : SeqsUpTo(SuggestedElements, MaxSuggested)]
    /\ last = [op |-> "none"]
    /\ edgeIdCounter = 0

\* suggestViewType(input.elements)
SuggestViewType ==
    /\ last.op = "none"
    /\ last' = [op |-> "suggestViewType", result |-> suggestViewType(input.elements)]
    /\ UNCHANGED <<elements, relationships, input, edgeIdCounter>>

\* applyFilters(input.elements, getDefaultFiltersForViewType(viewType))
ApplyDefaultFilters(viewType) ==
    /\ last.op = "none"
    /\ last' = [op |-> "getDefaultFiltersForViewType", viewType |-> viewType,
                filters |-> getDefaultFiltersForViewType(viewType),
                result |-> applyFilters(input.elements,
                                        getDefaultFiltersForViewType(viewType))]
    /\ UNCHANGED <<elements, relationships, input, edgeIdCounter>>

ViewTypeNext ==
    \/ SuggestViewType
    \/ \E t \in DOMAIN VIEW_TYPES : ApplyDefaultFilters(VIEW_TYPES[t])

ViewTypeSpec == ViewTypeInit /\ [][ViewTypeNext]_vars

(***************************************************************************)
(* andFilter and orFilter on two filters, evaluated on an element:         *)
(* CombineSpec.                                                            *)
(***************************************************************************)
\* the filter trees of at most n nodes
TreesUpTo(n) == UNION {Trees(k) : k \in 1..n}

CombineInit ==
    /\ elements = <<>>
    /\ relationships = <<>>
    /\ \E element \in FilterElements, a \in TreesUpTo(MaxCombined), b \in NodeTests :
          input = [element |-> element, a |-> a, b |-> b]
    /\ last = [op |-> "none"]
    /\ edgeIdCounter = 0

\* evaluateFilter(input.element, andFilter(input.a, input.b))
AndFilter ==
    /\ last.op = "none"
    /\ last' = [op |-> "andFilter", filter |-> andFilter(input.a, input.b),
                result |-> evaluateFilter(input.element,
                                          andFilter(input.a, input.b))]
    /\ UNCHANGED <<elements, relationships, input, edgeIdCounter>>

\* evaluateFilter(input.element, orFilter(input.a, input.b))
OrFilter ==
    /\ last.op = "none"
    /\ last' = [op |-> "orFilter", filter |-> orFilter(input.a, input.b),
                result |-> evaluateFilter(input.element,
                                          orFilter(input.a, input.b))]
    /\ UNCHANGED <<elements, relationships, input, edgeIdCounter>>

CombineNext == AndFilter \/ OrFilter

CombineSpec == CombineInit /\ [][CombineNext]_vars

(***************************************************************************)
(* What an expose clause denotes, stated on the store as a set of          *)
(* qualified names (used by the properties below, not by the model).       *)
(***************************************************************************)
\* the stored element of qualified name k
Stored(k) == mapGet(elements, k)

\* the entries of k's child list that are keys of the store
ResolvableChildren(k) ==
    {Stored(k).children[i] : i \in DOMAIN Stored(k).children} \cap mapKeys(elements)

\* the names reachable from the names of S by following resolvable children
RECURSIVE ReachableFrom(_)
ReachableFrom(S) ==
    LET next == S \cup UNION {ResolvableChildren(k) : k \in S}
    IN  IF next = S THEN S ELSE ReachableFrom(next)

\* a parent/child cycle is reachable from k through resolvable children
CycleReachable(k) ==
    \E c \in ReachableFrom({k}) : c \in ReachableFrom(ResolvableChildren(c))

\* the stored names prefix::x, x holding a further :: only when deep is true
InNamespace(prefix, deep) ==
    {k \in mapKeys(elements) :
        /\ Len(k) >= Len(prefix) + 2
        /\ SubSeq(k, 1, Len(prefix)) = prefix
        /\ SubSeq(k, Len(prefix) + 1, Len(prefix) + 2) = "::"
        /\ (deep \/ \A i \in (Len(prefix) + 3)..(Len(k) - 1) : SubSeq(k, i, i + 1) # "::")}

\* the target without a trailing ::* or ::**
WithoutStarMarker(target) ==
    IF Len(target) >= 4 /\ SubSeq(target, Len(target) - 3, Len(target)) = "::**"
    THEN SubSeq(target, 1, Len(target) - 4)
    ELSE IF Len(target) >= 3 /\ SubSeq(target, Len(target) - 2, Len(target)) = "::*"
    THEN SubSeq(target, 1, Len(target) - 3)
    ELSE target

\* the target without a trailing ::, ::* or ::**
WithoutMarker(target) ==
    IF Len(target) >= 2 /\ SubSeq(target, Len(target) - 1, Len(target)) = "::"
    THEN SubSeq(target, 1, Len(target) - 2)
    ELSE WithoutStarMarker(target)

IsTrue(obj, field) == Has(obj, field) /\ obj[field] = TRUE

\* the qualified names a clause denotes (for a clause whose resolution returns)
Denotes(clause) ==
    IF clause.target \in mapKeys(elements)
    THEN IF ~IsTrue(clause, "allMembers") THEN {clause.target}
         ELSE IF IsTrue(clause, "recursive") THEN ReachableFrom({clause.target})
         ELSE {clause.target} \cup ResolvableChildren(clause.target)
    ELSE InNamespace(WithoutMarker(clause.target), IsTrue(clause, "recursive"))

\* the qualified names a list of clauses denotes
DenotedBy(exposes) == UNION {Denotes(exposes[i]) : i \in DOMAIN exposes}

\* every filter of the list evaluates to true for the element
PassesAll(element, filters) ==
    \A i \in DOMAIN filters : evaluateFilter(element, filters[i])

\* the i-th smallest member of a set of numbers
NthOf(S, i) == CHOOSE n \in S : Cardinality({m \in S : m <= n}) = i

\* sub holds exactly the members of xs at the positions of Keep, in order
IsSubsequenceAt(sub, xs, Keep) ==
    /\ Len(sub) = Cardinality(Keep)
    /\ \A j \in DOMAIN sub : sub[j] = xs[NthOf(Keep, j)]

(***************************************************************************)
(* Properties of resolveView (Spec).                                       *)
(***************************************************************************)
Resolved == last.op = "resolveView" /\ ~last.outcome.threw

\* C1: a returned ResolvedView has exposedCount = the number of elements the
\* effective exposes denote, filteredCount = the number of those that pass
\* the effective filters, and one node per filtered element, the i-th node
\* being elementToNode of the i-th filtered element (its type that element's
\* metaclass); so filteredCount <= exposedCount.
C1_ResolveViewCounts ==
    Resolved =>
        LET r == last.outcome.value
            exposes == effectiveExposes(last.view, last.viewDef)
            filters == effectiveFilters(last.view, last.viewDef)
            denoted == DenotedBy(exposes)
            passing == {k \in denoted : PassesAll(Stored(k), filters)}
            exposed == collectExposedElements(exposes, context).value
            Keep == {i \in DOMAIN exposed : PassesAll(exposed[i], filters)}
        IN  /\ r.exposedCount = Cardinality(denoted)
            /\ r.filteredCount = Cardinality(passing)
            /\ Len(r.nodes) = r.filteredCount
            /\ {r.nodes[i].id : i \in DOMAIN r.nodes} = {Stored(k).id : k \in passing}
            /\ \A i \in DOMAIN r.nodes :
                  /\ r.nodes[i] = elementToNode(exposed[NthOf(Keep, i)])
                  /\ r.nodes[i].type = exposed[NthOf(Keep, i)].metaclass
            /\ r.filteredCount <= r.exposedCount

\* C1 witness: two elements exposed, one of them kept by a metaclass filter,
\* the one node of type PartUsage
C1_Witness ==
    /\ Resolved
    /\ last.outcome.value.exposedCount = 2
    /\ last.outcome.value.filteredCount = 1
    /\ Len(last.outcome.value.nodes) = 1
    /\ last.outcome.value.nodes[1].type = "PartUsage"

\* the list a usage overrides a definition's list with: the usage's own list
\* when it has one, the definition's list otherwise
Overridden(view, viewDef, field) ==
    IF field \in DOMAIN view THEN view[field] ELSE viewDef[field]

\* C2: resolveView resolves the usage's exposes whenever the usage has the
\* list (an empty one included) and the definition's only when it has none,
\* and the same for filters, never merging the two lists: a usage with
\* exposes = [] resolves to no node and a usage with filters = [] resolves
\* unfiltered, whatever the definition declares.
C2_WholeListOverride ==
    last.op = "resolveView" =>
        LET exposes == Overridden(last.view, last.viewDef, "exposes")
            filters == Overridden(last.view, last.viewDef, "filters")
            denoted == DenotedBy(exposes)
            passing == {k \in denoted : PassesAll(Stored(k), filters)}
        IN  /\ last.outcome.threw = collectExposedElements(exposes, context).threw
            /\ ~last.outcome.threw =>
                  LET r == last.outcome.value IN
                  /\ r.exposedCount = Cardinality(denoted)
                  /\ {r.nodes[i].id : i \in DOMAIN r.nodes}
                        = {Stored(k).id : k \in passing}
                  /\ (Has(last.view, "exposes") /\ last.view.exposes = <<>>)
                        => r.nodes = <<>> /\ r.exposedCount = 0
                  /\ (Has(last.view, "filters") /\ last.view.filters = <<>>)
                        => r.filteredCount = r.exposedCount

\* C2 witness: a usage whose exposes is the empty list resolves to nothing
\* although the definition's exposes denote stored elements, and a usage
\* whose filters is the empty list keeps an element the definition's filters
\* reject
C2_Witness ==
    /\ Resolved
    /\ Has(last.view, "exposes") /\ last.view.exposes = <<>>
    /\ DenotedBy(last.viewDef.exposes) # {}
    /\ last.outcome.value.nodes = <<>>

C2_ReachEmptyFilters ==
    /\ Resolved
    /\ Has(last.view, "filters") /\ last.view.filters = <<>>
    /\ ~Has(last.view, "exposes")
    /\ \E k \in DenotedBy(last.viewDef.exposes) :
          ~PassesAll(Stored(k), last.viewDef.filters)
    /\ last.outcome.value.filteredCount = Cardinality(DenotedBy(last.viewDef.exposes))
    /\ last.outcome.value.filteredCount > 0

(***************************************************************************)
(* Properties of applyFilters (FilterSpec).                                *)
(***************************************************************************)
\* C3: applyFilters(xs, F) is the order-preserving subsequence of xs made of
\* exactly the elements for which every filter of F evaluates to true; with
\* F empty it is xs itself.
C3_ApplyFiltersSubsequence ==
    (last.op = "applyFilters" /\ last.nth = 1) =>
        LET xs == input.elements
            Keep == {i \in DOMAIN xs : PassesAll(xs[i], input.filters)}
        IN  /\ IsSubsequenceAt(last.result, xs, Keep)
            /\ input.filters = <<>> => last.result = xs

\* C3 witness: two filters, a list of two elements of which the first is
\* rejected by one filter only and the second is kept
C3_Witness ==
    /\ last.op = "applyFilters" /\ last.nth = 1
    /\ Len(input.filters) = 2 /\ Len(input.elements) = 2
    /\ evaluateFilter(input.elements[1], input.filters[1])
    /\ ~evaluateFilter(input.elements[1], input.filters[2])
    /\ last.result = <<input.elements[2]>>

\* C6: applyFilters(applyFilters(xs, F), F) = applyFilters(xs, F).
C6_ApplyFiltersIdempotent ==
    (last.op = "applyFilters" /\ last.nth = 2) =>
        /\ last.elements = applyFilters(input.elements, input.filters)
        /\ last.result = last.elements

\* C6 witness: the second application, on a list the first one shortened
C6_Witness ==
    /\ last.op = "applyFilters" /\ last.nth = 2
    /\ 0 < Len(last.elements) /\ Len(last.elements) < Len(input.elements)
    /\ last.result = last.elements

(***************************************************************************)
(* Properties of evaluateFilter (EvalSpec).                                *)
(***************************************************************************)
Evaluated == last.op = "evaluateFilter"

\* the property is present, whatever its value
IsPresent(filter, field) == field \in DOMAIN filter

\* the property is present and not the empty string
IsNonEmpty(filter, field) == field \in DOMAIN filter /\ Len(filter[field]) > 0

\* the value the claim gives a node's own test, IsSet saying when a property
\* counts as set
ClaimedOwn(element, filter, IsSet(_, _)) ==
    LET test ==
            IF IsSet(filter, "expression")
            THEN \/ \E i \in 0..(Len(element.metaclass) - Len(filter.expression)) :
                       SubSeq(element.metaclass, i + 1, i + Len(filter.expression))
                           = filter.expression
                 \/ \E i \in 0..(Len(element.name) - Len(filter.expression)) :
                       SubSeq(element.name, i + 1, i + Len(filter.expression))
                           = filter.expression
            ELSE IF IsSet(filter, "metaclass")
            THEN element.metaclass = filter.metaclass
            ELSE TRUE
    IN  IF IsTrue(filter, "not") THEN ~test ELSE test

\* the filter without one property
Without(filter, field) == [f \in DOMAIN filter \ {field} |-> filter[f]]

\* C4 as stated, a property counting as set when it is present: the value of
\* a filter node before its and/or children are considered is the expression
\* test when expression is set, otherwise the metaclass equality when
\* metaclass is set, otherwise true, negated when not is true.
C4_OwnTest_AsStated ==
    Evaluated => last.own = ClaimedOwn(input.element, input.filter, IsPresent)

\* C4 amended, a property counting as set when it is present and not the
\* empty string: the value of a filter node before its and/or children are
\* considered is the expression test when expression is set, otherwise the
\* metaclass equality when metaclass is set, otherwise true, negated when
\* not is true; with both set the metaclass test has no influence, and
\* {metaclass: M, not: true} keeps exactly the elements whose metaclass
\* differs from M.
C4_OwnTest ==
    Evaluated =>
        LET e == input.element
            f == input.filter
        IN  /\ last.own = ClaimedOwn(e, f, IsNonEmpty)
            /\ (IsNonEmpty(f, "metaclass") /\ IsNonEmpty(f, "expression"))
                  => last.own = ownResult(e, Without(f, "metaclass"))
            /\ (DOMAIN f = {"id", "metaclass", "not"} /\ f.metaclass # "" /\ f.not)
                  => last.result = (e.metaclass # f.metaclass)

\* C4 witness: metaclass and expression both set and disagreeing on the
\* element, the expression test deciding
C4_Witness ==
    /\ Evaluated
    /\ IsNonEmpty(input.filter, "metaclass") /\ IsNonEmpty(input.filter, "expression")
    /\ input.element.metaclass # input.filter.metaclass
    /\ ~IsTrue(input.filter, "not")
    /\ last.own

\* C5: with L the node's own (possibly negated) test, evaluate(e, f) is L
\* when f has neither and nor or, L AND evaluate(e, f.and) with and only,
\* L OR evaluate(e, f.or) with or only, and
\* (L AND evaluate(e, f.and)) OR evaluate(e, f.or) with both; a chain
\* {metaclass: A} OR {metaclass: B} keeps exactly the elements whose
\* metaclass is A or B.
C5_Combination ==
    Evaluated =>
        LET e == input.element
            f == input.filter
            L == last.own
            hasAnd == "and" \in DOMAIN f
            hasOr == "or" \in DOMAIN f
        IN  /\ (~hasAnd /\ ~hasOr) => last.result = L
            /\ (hasAnd /\ ~hasOr) => last.result = (L /\ evaluateFilter(e, f.and))
            /\ (~hasAnd /\ hasOr) => last.result = (L \/ evaluateFilter(e, f.or))
            /\ (hasAnd /\ hasOr)
                  => last.result = ((L /\ evaluateFilter(e, f.and))
                                     \/ evaluateFilter(e, f.or))
            /\ (/\ DOMAIN f = {"id", "metaclass", "or"} /\ f.metaclass # ""
                /\ DOMAIN f.or = {"id", "metaclass"})
                  => last.result = (e.metaclass \in {f.metaclass, f.or.metaclass})

\* C5 witness: and and or both present, the own test true, the and child
\* false and the or child true, so the or child decides
C5_Witness ==
    /\ Evaluated
    /\ "and" \in DOMAIN input.filter /\ "or" \in DOMAIN input.filter
    /\ last.own
    /\ ~evaluateFilter(input.element, input.filter.and)
    /\ evaluateFilter(input.element, input.filter.or)
    /\ last.result

(***************************************************************************)
(* Properties of the resolution of one expose clause (ExposeSpec).         *)
(***************************************************************************)
\* collectExposedElements was called with the one clause last.exposes[1]
OneClause == last.op = "collectExposedElements" /\ Len(last.exposes) = 1

\* the call returned the stored elements of exactly the names of S, each once
ReturnedExactly(S) ==
    /\ ~last.outcome.threw
    /\ Len(last.outcome.value) = Cardinality(S)
    /\ {last.outcome.value[i].qualifiedName : i \in DOMAIN last.outcome.value} = S
    /\ \A i \in DOMAIN last.outcome.value :
          last.outcome.value[i] = Stored(last.outcome.value[i].qualifiedName)

\* the entries of the child list of the stored element k
ChildEntries(k) == {Stored(k).children[i] : i \in DOMAIN Stored(k).children}

\* C7: a clause whose target is an exact key and whose allMembers is false
\* or absent denotes exactly that one element, whatever its recursive flag,
\* its child list and the other stored names.
C7_ExactKeySingleElement ==
    (/\ OneClause
     /\ last.exposes[1].target \in mapKeys(elements)
     /\ ~IsTrue(last.exposes[1], "allMembers"))
        => last.outcome = Return(<<Stored(last.exposes[1].target)>>)

\* C7 witness: recursive is true, the target has a stored child and a stored
\* name has the target as prefix, and the target alone is returned
C7_Witness ==
    /\ OneClause
    /\ last.exposes[1].target \in mapKeys(elements)
    /\ ~IsTrue(last.exposes[1], "allMembers")
    /\ IsTrue(last.exposes[1], "recursive")
    /\ ResolvableChildren(last.exposes[1].target) # {}
    /\ InNamespace(last.exposes[1].target, TRUE) # {}
    /\ Len(last.outcome.value) = 1

\* C8: a clause whose target is an exact key, with allMembers true and
\* recursive false (or absent), denotes exactly the target plus each entry of
\* its child list that is a key of the store: unstored children are skipped
\* without error and grandchildren are not included.
C8_DirectMembers ==
    (/\ OneClause
     /\ last.exposes[1].target \in mapKeys(elements)
     /\ IsTrue(last.exposes[1], "allMembers")
     /\ ~IsTrue(last.exposes[1], "recursive"))
        => LET t == last.exposes[1].target
           IN  /\ ReturnedExactly({t} \cup (ChildEntries(t) \cap mapKeys(elements)))
               /\ last.outcome.value[1] = Stored(t)

\* C8 witness: the target has a stored child, an unstored child and a stored
\* grandchild, and the grandchild is left out
C8_Witness ==
    /\ OneClause
    /\ last.exposes[1].target \in mapKeys(elements)
    /\ IsTrue(last.exposes[1], "allMembers")
    /\ ~IsTrue(last.exposes[1], "recursive")
    /\ LET t == last.exposes[1].target
           got == {last.outcome.value[i].qualifiedName : i \in DOMAIN last.outcome.value}
       IN  /\ ChildEntries(t) \ mapKeys(elements) # {}
           /\ \E c \in ResolvableChildren(t) :
                 /\ c # t
                 /\ c \in got
                 /\ \E g \in ResolvableChildren(c) : g \notin got

\* C9: a clause whose target is an exact key, with allMembers and recursive
\* both true, over a store in which no child-list cycle is reachable from the
\* target, denotes exactly the target plus every element reachable from it
\* through child entries that resolve in the store.
C9_RecursiveMembers ==
    (/\ OneClause
     /\ last.exposes[1].target \in mapKeys(elements)
     /\ IsTrue(last.exposes[1], "allMembers")
     /\ IsTrue(last.exposes[1], "recursive")
     /\ ~CycleReachable(last.exposes[1].target))
        => /\ ReturnedExactly(ReachableFrom({last.exposes[1].target}))
           /\ last.outcome.value[1] = Stored(last.exposes[1].target)

\* C9 witness: a grandchild is reached through a child, and an unstored child
\* is skipped
C9_Witness ==
    /\ OneClause
    /\ last.exposes[1].target \in mapKeys(elements)
    /\ IsTrue(last.exposes[1], "allMembers")
    /\ IsTrue(last.exposes[1], "recursive")
    /\ ~last.outcome.threw
    /\ LET t == last.exposes[1].target
           got == {last.outcome.value[i].qualifiedName : i \in DOMAIN last.outcome.value}
       IN  /\ ChildEntries(t) \ mapKeys(elements) # {}
           /\ \E g \in got : g \notin ({t} \cup ResolvableChildren(t))

\* the prefix scan the claim describes, for the prefix P
PrefixScanResult(P) ==
    /\ ReturnedExactly(InNamespace(P, IsTrue(last.exposes[1], "recursive")))
    /\ (/\ last.exposes[1].target = "P"
        /\ mapKeys(elements) = {"P::A", "P::A::B"})
          => {last.outcome.value[i].qualifiedName : i \in DOMAIN last.outcome.value}
                = IF IsTrue(last.exposes[1], "recursive")
                  THEN {"P::A", "P::A::B"} ELSE {"P::A"}

\* C10 as stated: a clause whose target is not an exact key denotes, P being
\* the target without a trailing ::* or ::**, every stored P::x with no
\* further :: in x, and the deeper names under P:: only when recursive is
\* true, whatever allMembers says.
C10_PrefixScan_AsStated ==
    (OneClause /\ last.exposes[1].target \notin mapKeys(elements))
        => PrefixScanResult(WithoutStarMarker(last.exposes[1].target))

\* C10 amended: a clause whose target is not an exact key denotes, P being
\* the target without a trailing ::, ::* or ::**, every stored P::x with no
\* further :: in x, and the deeper names under P:: only when recursive is
\* true, whatever allMembers says; with P::A and P::A::B stored and P not,
\* target P yields {P::A}, and {P::A, P::A::B} when recursive is true.
C10_PrefixScan ==
    (OneClause /\ last.exposes[1].target \notin mapKeys(elements))
        => PrefixScanResult(WithoutMarker(last.exposes[1].target))

\* C10 witness: P::A and P::A::B stored and P not, target P, allMembers true
\* and recursive not: P::A alone is returned
C10_Witness ==
    /\ OneClause
    /\ last.exposes[1].target = "P"
    /\ mapKeys(elements) = {"P::A", "P::A::B"}
    /\ IsTrue(last.exposes[1], "allMembers")
    /\ ~IsTrue(last.exposes[1], "recursive")
    /\ last.outcome = Return(<<Stored("P::A")>>)

(***************************************************************************)
(* Properties of collectExposedElements over a clause list (ExposeSpec).   *)
(***************************************************************************)
Collected == last.op = "collectExposedElements"

\* the clause list without the clauses for which Absent holds
Present(exposes, Absent(_)) == LET Keep(c) == ~Absent(c) IN SelectSeq(exposes, Keep)

\* the clause's target is not a stored qualified name
NotStored(clause) == clause.target \notin mapKeys(elements)

\* the clause's target is not a stored qualified name, and no stored name
\* lies under it as a namespace
NothingUnder(clause) ==
    /\ clause.target \notin mapKeys(elements)
    /\ InNamespace(WithoutMarker(clause.target), TRUE) = {}

\* the call did what it does on the list without the clauses for which Absent
\* holds, and returned nothing when Absent holds for every clause
ContributeNothing(Absent(_)) ==
    /\ last.outcome = collectExposedElements(Present(last.exposes, Absent), context)
    /\ (\A i \in DOMAIN last.exposes : Absent(last.exposes[i]))
          => last.outcome = Return(<<>>)

\* C11 as stated: a clause whose target is not a stored qualified name is not
\* an error and contributes no element to collectExposedElements.
C11_AbsentTarget_AsStated == Collected => ContributeNothing(NotStored)

\* C11 amended: a clause whose target is not a stored qualified name, and
\* under which (the target without a trailing ::, ::* or ::**, followed by
\* ::) no stored qualified name lies, is not an error and contributes no
\* element to collectExposedElements.
C11_AbsentTarget == Collected => ContributeNothing(NothingUnder)

\* C11 witness: the first of two clauses names P::A, which a store holding P
\* does not hold, and the call returns what the second clause denotes
C11_Witness ==
    /\ Collected
    /\ Len(last.exposes) = 2
    /\ NothingUnder(last.exposes[1])
    /\ ~NothingUnder(last.exposes[2])
    /\ ~last.outcome.threw
    /\ Len(last.outcome.value) > 0

\* the lists the clauses resolve to, one after the other
RECURSIVE Flattened(_)
Flattened(exposes) ==
    IF exposes = <<>> THEN <<>>
    ELSE resolveExposeClause(Head(exposes), context).value \o Flattened(Tail(exposes))

\* the first and the last position of the qualified name k in a list
FirstAt(flat, k) ==
    CHOOSE i \in DOMAIN flat :
        flat[i].qualifiedName = k /\ \A j \in 1..(i - 1) : flat[j].qualifiedName # k
LastAt(flat, k) ==
    CHOOSE i \in DOMAIN flat :
        flat[i].qualifiedName = k
        /\ \A j \in (i + 1)..Len(flat) : flat[j].qualifiedName # k

\* C12: collectExposedElements returns each qualified name the clauses
\* resolve at most once, in the order in which the names are first seen when
\* the clauses are processed in order, each with the element of its last
\* resolution.
C12_MergedFirstSeen ==
    (Collected /\ ~last.outcome.threw) =>
        LET out == last.outcome.value
            flat == Flattened(last.exposes)
        IN  /\ \A i, j \in DOMAIN out :
                  i # j => out[i].qualifiedName # out[j].qualifiedName
            /\ {out[i].qualifiedName : i \in DOMAIN out}
                  = {flat[i].qualifiedName : i \in DOMAIN flat}
            /\ \A i, j \in DOMAIN out :
                  i < j => FirstAt(flat, out[i].qualifiedName)
                              < FirstAt(flat, out[j].qualifiedName)
            /\ \A i \in DOMAIN out : out[i] = flat[LastAt(flat, out[i].qualifiedName)]

\* C12 witness: two clauses, the second resolving first a name the first
\* clause did not resolve and then one it did; the result keeps the order of
\* the first clause
C12_Witness ==
    /\ Collected /\ ~last.outcome.threw
    /\ Len(last.exposes) = 2
    /\ LET one == resolveExposeClause(last.exposes[1], context).value
           two == resolveExposeClause(last.exposes[2], context).value
           out == last.outcome.value
       IN  /\ Len(out) < Len(one) + Len(two)
           /\ Len(two) >= 2
           /\ \A i \in DOMAIN one : two[1].qualifiedName # one[i].qualifiedName
           /\ \E i \in DOMAIN one : two[2].qualifiedName = one[i].qualifiedName
           /\ out[Len(out)] = two[1]

\* C13: member expansion has no cycle guard.  A clause whose target is an
\* exact key, with allMembers and recursive both true, returns a result when
\* no child-list cycle is reachable from the target through children that
\* resolve in the store, and returns none (the recursion goes on until the
\* call stack is exhausted) when one is.
C13_NoCycleGuard ==
    (/\ OneClause
     /\ last.exposes[1].target \in mapKeys(elements)
     /\ IsTrue(last.exposes[1], "allMembers")
     /\ IsTrue(last.exposes[1], "recursive"))
        => /\ CycleReachable(last.exposes[1].target) => last.outcome.threw
           /\ ~CycleReachable(last.exposes[1].target) => ~last.outcome.threw

\* C13 witness: the cycle P -> P::A -> P::A::B -> P is stored, P is exposed
\* recursively and the call returns no result
C13_Witness ==
    /\ OneClause
    /\ last.exposes[1].target = "P"
    /\ IsTrue(last.exposes[1], "allMembers")
    /\ IsTrue(last.exposes[1], "recursive")
    /\ mapKeys(elements) = {"P", "P::A", "P::A::B"}
    /\ "P" \in ChildEntries("P::A::B")
    /\ "P::A::B" \in ChildEntries("P::A")
    /\ "P::A" \in ChildEntries("P")
    /\ last.outcome.threw

(***************************************************************************)
(* Properties of findRelationshipEdges (EdgeSpec).                         *)
(***************************************************************************)
EdgesFound == last.op = "findRelationshipEdges"

\* the qualified names of the elements of the list
ListedNames == {input.elements[i].qualifiedName : i \in DOMAIN input.elements}

\* the positions of the relationships with both endpoints in the list
BothListed ==
    {i \in DOMAIN input.relationships :
        /\ input.relationships[i].source \in ListedNames
        /\ input.relationships[i].target \in ListedNames}

\* the relationship the j-th edge was produced from
SourceOfEdge(j) == input.relationships[NthOf(BothListed, j)]

EdgeFields == {"id", "source", "target", "type"}

\* C14: findRelationshipEdges returns one edge for each relationship whose
\* source and target are both qualified names of listed elements, in the
\* order of the relationships, and none for a relationship with one or no
\* endpoint in the list; the j-th edge holds the property bag of the j-th
\* such relationship and, where the bag has no such key, its id, source,
\* target and type.  With P::A alone listed and a relationship
\* P::A -> P::A::B there is no edge.
C14_EdgesBetweenListed ==
    EdgesFound =>
        /\ Len(last.result) = Cardinality(BothListed)
        /\ \A j \in DOMAIN last.result :
              LET rel == SourceOfEdge(j)
                  edge == last.result[j]
              IN  /\ DOMAIN edge = EdgeFields \cup DOMAIN rel.properties
                  /\ \A key \in DOMAIN rel.properties : edge[key] = rel.properties[key]
                  /\ \A field \in EdgeFields \ DOMAIN rel.properties :
                        edge[field] = rel[field]
        /\ (/\ ListedNames = {"P::A"}
            /\ \E i \in DOMAIN input.relationships :
                  /\ input.relationships[i].source = "P::A"
                  /\ input.relationships[i].target = "P::A::B")
              => Len(last.result) < Len(input.relationships)
        /\ BothListed = {} => last.result = <<>>

\* C14 witness: of two relationships the first has its source alone in the
\* list and the second both endpoints, and the second alone gives an edge
C14_Witness ==
    /\ EdgesFound
    /\ Len(input.relationships) = 2
    /\ input.relationships[1].source \in ListedNames
    /\ input.relationships[1].target \notin ListedNames
    /\ BothListed = {2}
    /\ Len(last.result) = 1
    /\ last.result[1].id = input.relationships[2].id

\* C15: every edge of findRelationshipEdges carries the id, source, target
\* and type of the relationship it was produced from, whatever the property
\* bag of that relationship holds, so that the source and target of every
\* edge are qualified names of listed elements.
C15_EdgeCarriesRelationship ==
    EdgesFound =>
        \A j \in DOMAIN last.result :
            /\ last.result[j].id = SourceOfEdge(j).id
            /\ last.result[j].source = SourceOfEdge(j).source
            /\ last.result[j].target = SourceOfEdge(j).target
            /\ last.result[j].type = SourceOfEdge(j).type
            /\ last.result[j].source \in ListedNames
            /\ last.result[j].target \in ListedNames

(***************************************************************************)
(* Properties of the converter (ConverterSpec).                            *)
(***************************************************************************)
\* the values SymbolData declares for definitionKind and for usageKind
DeclaredDefinitionKinds ==
    {"Part", "Port", "Action", "State", "Item", "Attribute", "Requirement",
     "Concern", "Case", "AnalysisCase", "VerificationCase", "UseCase", "View",
     "Viewpoint", "Rendering", "Allocation", "Calculation", "Connection",
     "Constraint", "Enumeration", "Flow", "Individual", "Interface",
     "Occurrence", "Metadata"}
DeclaredUsageKinds ==
    {"Part", "Port", "Action", "Item", "Attribute", "Requirement", "Concern",
     "Case", "View", "Enumeration", "SatisfyRequirement", "PerformAction",
     "ExhibitState", "IncludeUseCase"}

\* the symbol's kind is not Definition or Usage, or its sub-kind (definitionKind
\* of a Definition, usageKind of a Usage) is missing or not a recognised value
Skipped(symbol) ==
    \/ symbol.kind \notin {"Definition", "Usage"}
    \/ /\ symbol.kind = "Definition"
       /\ \/ "definitionKind" \notin DOMAIN symbol
          \/ symbol.definitionKind \notin DeclaredDefinitionKinds
    \/ /\ symbol.kind = "Usage"
       /\ \/ "usageKind" \notin DOMAIN symbol
          \/ symbol.usageKind \notin DeclaredUsageKinds

\* C19: convertSymbolToNode returns null, and raises no error, exactly for
\* the symbols whose kind is not Definition or Usage or whose sub-kind is
\* missing or not recognised, and a node of the symbol's qualified name for
\* every other symbol; a diagram createDiagramFromWorkspace returns has one
\* node for each symbol of the workspace that is not such, in order.
C19_SkippedSymbols ==
    /\ last.op = "convertSymbolToNode" =>
          /\ ~last.outcome.threw
          /\ (last.outcome.value = null) = Skipped(last.symbol)
          /\ ~Skipped(last.symbol)
                => last.outcome.value.qualifiedName = last.symbol.qualifiedName
    /\ (last.op = "createDiagramFromWorkspace" /\ ~last.outcome.threw) =>
          LET symbols == last.workspace.symbols
              Keep == {i \in DOMAIN symbols : ~Skipped(symbols[i])}
              nodes == last.outcome.value.nodes
          IN  /\ Len(nodes) = Cardinality(Keep)
              /\ \A j \in DOMAIN nodes :
                    /\ nodes[j].data.qualifiedName = symbols[NthOf(Keep, j)].qualifiedName
                    /\ nodes[j].data.name = symbols[NthOf(Keep, j)].name

\* C19 witness: a workspace of a Package and a Part definition gives the one
\* node of the definition
C19_Witness ==
    /\ last.op = "createDiagramFromWorkspace" /\ ~last.outcome.threw
    /\ Len(last.workspace.symbols) = 2
    /\ last.workspace.symbols[1].kind = "Package"
    /\ last.workspace.symbols[2].kind = "Definition"
    /\ Len(last.outcome.value.nodes) = 1
    /\ last.outcome.value.nodes[1].type = "PartDef"

\* a second witness of C19's case: a Usage whose usageKind is a definition
\* kind only converts to null
C19_ReachWrongSwitch ==
    /\ last.op = "convertSymbolToNode"
    /\ last.symbol.kind = "Usage"
    /\ "usageKind" \in DOMAIN last.symbol /\ last.symbol.usageKind = "State"
    /\ "definitionKind" \in DOMAIN last.symbol /\ last.symbol.definitionKind = "Part"
    /\ last.outcome.value = null

\* the twelve relationship types RelationshipData declares
DeclaredRelationshipTypes ==
    {"specialization", "redefinition", "subsetting", "typing",
     "reference_subsetting", "cross_subsetting", "satisfy", "perform",
     "exhibit", "include", "assert", "verify"}

\* s ends with the characters of t
EndsWith(s, t) == Len(t) <= Len(s) /\ SubSeq(s, Len(s) - Len(t) + 1, Len(s)) = t

\* C20: a relationship whose type is outside the twelve-value vocabulary is
\* never silently dropped: convertRelationshipToEdge fails with an error
\* naming the type, and createDiagramFromWorkspace on a workspace holding
\* such a relationship fails with that error and returns no diagram,
\* whatever its symbols and other relationships; with every type in the
\* vocabulary each relationship gets its edge.
C20_UnknownTypeFails ==
    /\ last.op = "convertRelationshipToEdge" =>
          IF last.relationship.type \in DeclaredRelationshipTypes
          THEN /\ ~last.outcome.threw
               /\ last.outcome.value.type = last.relationship.type
          ELSE /\ last.outcome.threw
               /\ EndsWith(last.outcome.error, last.relationship.type)
    /\ last.op = "createDiagramFromWorkspace" =>
          LET rels == last.workspace.relationships
              Unknown == {i \in DOMAIN rels : rels[i].type \notin DeclaredRelationshipTypes}
          IN  IF Unknown = {}
              THEN /\ ~last.outcome.threw
                   /\ Len(last.outcome.value.edges) = Len(rels)
              ELSE /\ last.outcome.threw
                   /\ EndsWith(last.outcome.error, rels[NthOf(Unknown, 1)].type)

\* C20 witness: a workspace of two convertible symbols, a relationship of
\* the vocabulary and then one of type dependency fails as a whole
C20_Witness ==
    /\ last.op = "createDiagramFromWorkspace"
    /\ Len(last.workspace.symbols) = 2
    /\ \A i \in DOMAIN last.workspace.symbols : ~Skipped(last.workspace.symbols[i])
    /\ Len(last.workspace.relationships) = 2
    /\ last.workspace.relationships[1].type = "specialization"
    /\ last.workspace.relationships[2].type = "dependency"
    /\ last.outcome.threw

(***************************************************************************)
(* Properties of the store under resolution (Spec, RepeatSpec, StoreSpec). *)
(***************************************************************************)
\* C16: a call to resolveView, and so the calls to collectExposedElements,
\* applyFilters and findRelationshipEdges it makes, leaves the store as it
\* was: the same keys, the same element under each key and the same
\* relationship sequence after the call as before it.
C16_StoreUnchanged ==
    [][last'.op = "resolveView" =>
          /\ mapKeys(elements') = mapKeys(elements)
          /\ \A k \in mapKeys(elements) : mapGet(elements', k) = mapGet(elements, k)
          /\ relationships' = relationships]_vars

\* C16 witness: a view resolved over a store of two elements and one
\* relationship, of which the filters keep one element
C16_Witness ==
    /\ Resolved
    /\ Len(elements) = 2
    /\ Len(relationships) = 1
    /\ last.outcome.value.exposedCount = 2
    /\ last.outcome.value.filteredCount = 1

\* resolveView was called a second time with the arguments of the first call
ResolvedAgain == last.op = "resolveView" /\ "nth" \in DOMAIN last

\* C17: two resolveView calls with the same usage and definition on a store
\* not modified in between have the same outcome, whatever converter calls
\* are made in between: equal nodes, equal edges (ids included) and equal
\* exposedCount and filteredCount.
C17_Deterministic ==
    ResolvedAgain =>
        /\ last.outcome.threw = input.outcome.threw
        /\ ~last.outcome.threw =>
              /\ last.outcome.value.nodes = input.outcome.value.nodes
              /\ last.outcome.value.edges = input.outcome.value.edges
              /\ last.outcome.value.exposedCount = input.outcome.value.exposedCount
              /\ last.outcome.value.filteredCount = input.outcome.value.filteredCount

\* C17 witness: the second call, made after a converter call has advanced
\* the edge id counter, returns a node and an edge
C17_Witness ==
    /\ ResolvedAgain
    /\ edgeIdCounter > 0
    /\ ~last.outcome.threw
    /\ Len(last.outcome.value.nodes) > 1
    /\ Len(last.outcome.value.edges) > 0

\* the last of the added elements that has the qualified name k
LastAdded(k) ==
    input.added[CHOOSE i \in DOMAIN input.added :
                    /\ input.added[i].qualifiedName = k
                    /\ \A j \in (i + 1)..Len(input.added) :
                          input.added[j].qualifiedName # k]

\* C18: after any sequence of addElement calls the store holds one entry per
\* distinct qualified name added, its key the qualifiedName of its element,
\* its element the one the last call for that name was given; a call for a
\* name already stored leaves the number of entries as it was.
C18_LastWriteWins ==
    LET names == {input.added[i].qualifiedName : i \in DOMAIN input.added}
    IN  /\ Len(elements) = Cardinality(names)
        /\ mapKeys(elements) = names
        /\ \A i \in DOMAIN elements :
              /\ elements[i].key = elements[i].value.qualifiedName
              /\ elements[i].value = LastAdded(elements[i].key)
        /\ (/\ last.op = "addElement"
            /\ \E j \in 1..(Len(input.added) - 1) :
                  input.added[j].qualifiedName
                      = input.added[Len(input.added)].qualifiedName)
              => Len(elements) = last.size

\* C18 witness: three calls, the third for the name of the first with
\* another element: two entries, the third element stored
C18_Witness ==
    /\ Len(input.added) = 3
    /\ input.added[1].qualifiedName = input.added[3].qualifiedName
    /\ input.added[1] # input.added[3]
    /\ input.added[2].qualifiedName # input.added[1].qualifiedName
    /\ Len(elements) = 2
    /\ elements[1].value = input.added[3]

(***************************************************************************)
(* Properties of a session of converter calls (SessionSpec) and of         *)
(* createDiagramFromWorkspace (ConverterSpec).                             *)
(***************************************************************************)
\* C21: across any sequence of convertRelationshipToEdge and
\* createDiagramFromWorkspace calls, no two of the edges the calls returned
\* have the same id, even when the relationships converted are identical.
C21_EdgeIdsUnique ==
    \A i, j \in DOMAIN input.produced :
        i # j => input.produced[i].id # input.produced[j].id

\* C21 witness: a createDiagramFromWorkspace call returns two edges of the
\* same relationship after an earlier call has returned an edge of it
C21_Witness ==
    /\ last.op = "createDiagramFromWorkspace" /\ ~last.outcome.threw
    /\ Len(last.outcome.value.edges) = 2
    /\ Len(input.produced) >= 3
    /\ \A i \in DOMAIN input.produced :
          /\ input.produced[i].source = input.produced[1].source
          /\ input.produced[i].target = input.produced[1].target
          /\ input.produced[i].type = input.produced[1].type

\* the diagram the call returned
Diagram == last.outcome.value

Created == last.op = "createDiagramFromWorkspace" /\ ~last.outcome.threw

\* C22: a diagram createDiagramFromWorkspace returns has one node per
\* convertible symbol, in symbol order, and one edge per relationship, in
\* relationship order, with the relationship's source, target and type; the
\* edge is there whether or not its source and target are nodes.
C22_NodesAndEdges ==
    Created =>
        LET symbols == last.workspace.symbols
            rels == last.workspace.relationships
            Convertible == {i \in DOMAIN symbols : ~Skipped(symbols[i])}
        IN  /\ Len(Diagram.nodes) = Cardinality(Convertible)
            /\ \A j \in DOMAIN Diagram.nodes :
                  Diagram.nodes[j].data.qualifiedName
                      = symbols[NthOf(Convertible, j)].qualifiedName
            /\ Len(Diagram.edges) = Len(rels)
            /\ \A i \in DOMAIN rels :
                  /\ Diagram.edges[i].source = rels[i].source
                  /\ Diagram.edges[i].target = rels[i].target
                  /\ Diagram.edges[i].type = rels[i].type

\* C22 witness: a diagram of one node and two edges, neither edge having
\* both its ends among the nodes
C22_Witness ==
    /\ Created
    /\ Len(Diagram.nodes) = 1
    /\ Len(Diagram.edges) = 2
    /\ \A i \in DOMAIN Diagram.edges :
          \/ Diagram.edges[i].source # Diagram.nodes[1].data.qualifiedName
          \/ Diagram.edges[i].target # Diagram.nodes[1].data.qualifiedName

\* C27: for every workspace whose symbols have pairwise distinct qualified
\* names, the nodes of the diagram createDiagramFromWorkspace returns have
\* pairwise distinct ids.
C27_NodeIdsUnique ==
    (/\ Created
     /\ \A i, j \in DOMAIN last.workspace.symbols :
           i # j => last.workspace.symbols[i].qualifiedName
                       # last.workspace.symbols[j].qualifiedName)
        => \A i, j \in DOMAIN Diagram.nodes :
              i # j => Diagram.nodes[i].id # Diagram.nodes[j].id

\* C29: every call to convertRelationshipToEdge, a call that fails on an
\* unknown type included, leaves the edge id counter one above what it was,
\* a returned edge taking the id of the counter before the call; no call
\* lowers or resets the counter.
C29_CounterAdvances ==
    [][/\ edgeIdCounter' >= edgeIdCounter
       /\ last'.op = "convertRelationshipToEdge" =>
             /\ edgeIdCounter' = edgeIdCounter + 1
             /\ ~last'.outcome.threw =>
                   last'.outcome.value.id = "edge_" \o ToString(edgeIdCounter)]_vars

\* C29 witness: the first call failed, and the edge of the second call has
\* the id edge_1
C29_Witness ==
    /\ last.op = "convertRelationshipToEdge" /\ ~last.outcome.threw
    /\ edgeIdCounter = 2
    /\ Len(input.produced) = 1
    /\ input.produced[1].id = "edge_1"

\* createDiagramFromWorkspace was called again on the workspace of the call
\* before
CreatedAgain == last.op = "createDiagramFromWorkspace" /\ "previous" \in DOMAIN last

\* C30: two createDiagramFromWorkspace calls on the same workspace return
\* the same nodes (the i-th converted symbol at x = 200 * i, y = 0, counting
\* from 0) and edges equal in order, source, target and type, and no edge id
\* of the second call is an edge id of the first.
C30_SameButEdgeIds ==
    CreatedAgain =>
        /\ last.outcome.threw = last.previous.threw
        /\ ~last.outcome.threw =>
              LET first == last.previous.value
                  second == last.outcome.value
              IN  /\ second.nodes = first.nodes
                  /\ \A i \in DOMAIN second.nodes :
                        second.nodes[i].position = [x |-> 200 * (i - 1), y |-> 0]
                  /\ Len(second.edges) = Len(first.edges)
                  /\ \A i \in DOMAIN second.edges :
                        /\ second.edges[i].source = first.edges[i].source
                        /\ second.edges[i].target = first.edges[i].target
                        /\ second.edges[i].type = first.edges[i].type
                  /\ \A i \in DOMAIN second.edges, j \in DOMAIN first.edges :
                        second.edges[i].id # first.edges[j].id

\* C30 witness: the second call returns two nodes, the second at x = 200,
\* and two edges
C30_Witness ==
    /\ CreatedAgain /\ ~last.outcome.threw
    /\ Len(last.outcome.value.nodes) = 2
    /\ last.outcome.value.nodes[2].position.x = 200
    /\ Len(last.outcome.value.edges) = 2

(***************************************************************************)
(* Properties of the view type helpers (ViewTypeSpec) and of the filter    *)
(* combinators (CombineSpec).                                              *)
(***************************************************************************)
\* the metaclasses of the listed elements
MetaclassesPresent == {input.elements[i].metaclass : i \in DOMAIN input.elements}

\* C23: suggestViewType decides by a fixed priority over the set of
\* metaclasses present, whatever the order and the multiplicity of the
\* elements: state-transition with StateUsage or StateDef, otherwise
\* action-flow with ActionUsage or ActionDef, otherwise interconnection with
\* PortUsage or ConnectionUsage, otherwise general (the empty list and
\* PartUsage or PartDef alone included).
C23_SuggestByPriority ==
    last.op = "suggestViewType" =>
        /\ last.result =
              IF MetaclassesPresent \cap {"StateUsage", "StateDef"} # {}
              THEN "StateTransitionView"
              ELSE IF MetaclassesPresent \cap {"ActionUsage", "ActionDef"} # {}
              THEN "ActionFlowView"
              ELSE IF MetaclassesPresent \cap {"PortUsage", "ConnectionUsage"} # {}
              THEN "InterconnectionView"
              ELSE "GeneralView"
        /\ MetaclassesPresent \subseteq {"PartUsage", "PartDef"} => last.result = "GeneralView"

\* C23 witness: a port first, an action next and a state definition last
\* give state-transition
C23_Witness ==
    /\ last.op = "suggestViewType"
    /\ Len(input.elements) = 3
    /\ input.elements[1].metaclass = "PortUsage"
    /\ input.elements[2].metaclass = "ActionUsage"
    /\ input.elements[3].metaclass = "StateDef"
    /\ last.result = "StateTransitionView"

IsPartOrPort(element) == element.metaclass \in {"PartUsage", "PortUsage"}

\* C24: applying the default filters of the interconnection view type keeps
\* exactly the elements whose metaclass is PartUsage or PortUsage.
C24_InterconnectionDefaults ==
    (last.op = "getDefaultFiltersForViewType"
     /\ last.viewType = "InterconnectionView")
        => last.result = SelectSeq(input.elements, IsPartOrPort)

\* C25: andFilter(a, b) evaluates to true on an element exactly when a and
\* b both do, a carrying and/or children or not.
C25_AndFilterIsAnd ==
    last.op = "andFilter" =>
        last.result = (evaluateFilter(input.element, input.a)
                          /\ evaluateFilter(input.element, input.b))

\* C26: orFilter(a, b) evaluates to true on an element exactly when a or b
\* does, a carrying and/or children or not.
C26_OrFilterIsOr ==
    last.op = "orFilter" =>
        last.result = (evaluateFilter(input.element, input.a)
                          \/ evaluateFilter(input.element, input.b))

(***************************************************************************)
(* The two expose strategies on a structurally consistent store            *)
(* (ExposeSpec).                                                           *)
(***************************************************************************)
\* the positions of k at which a :: separator starts
Separators(k) == {i \in 1..(Len(k) - 1) : SubSeq(k, i, i + 1) = "::"}

\* the qualified name k without its last segment
ParentPrefix(k) ==
    SubSeq(k, 1, (CHOOSE i \in Separators(k) : \A j \in Separators(k) : j <= i) - 1)

\* every stored child list is exactly the stored names one segment below its
\* element, and every stored name of several segments has its parent stored
Consistent ==
    /\ \A k \in mapKeys(elements) : ChildEntries(k) = InNamespace(k, FALSE)
    /\ \A k \in mapKeys(elements) :
          Separators(k) # {} => ParentPrefix(k) \in mapKeys(elements)

\* the qualified names of a list of elements
NamesOf(els) == {els[i].qualifiedName : i \in DOMAIN els}

\* C28: on a structurally consistent store, for every stored target T and
\* either value of recursive, the clause (T, allMembers true) denotes T plus
\* exactly the elements the namespace prefix scan for prefix T yields with
\* the same recursive flag.
C28_StrategiesAgree ==
    (/\ OneClause
     /\ Consistent
     /\ last.exposes[1].target \in mapKeys(elements)
     /\ IsTrue(last.exposes[1], "allMembers"))
        => LET T == last.exposes[1].target
               scan == resolveNamespacePattern(T, TRUE,
                                               IsTrue(last.exposes[1], "recursive"),
                                               context)
           IN  /\ ~last.outcome.threw
               /\ NamesOf(last.outcome.value) = {T} \cup NamesOf(scan)
               /\ \A i \in DOMAIN scan : scan[i] \in
                     {last.outcome.value[j] : j \in DOMAIN last.outcome.value}

\* C28 witness: a consistent store of three levels, the root as target with
\* allMembers and recursive true: the child and the grandchild are returned
C28_Witness ==
    /\ OneClause
    /\ Consistent
    /\ last.exposes[1].target = "P"
    /\ IsTrue(last.exposes[1], "allMembers")
    /\ IsTrue(last.exposes[1], "recursive")
    /\ mapKeys(elements) = {"P", "P::A", "P::A::B"}
    /\ NamesOf(last.outcome.value) = {"P", "P::A", "P::A::B"}

====
